---- MODULE Spec2Model ----
(***************************************************************************)
(* Model of libraries/RC_Channel/RC_Channel.cpp: one RC input channel, its *)
(* override arbiter, its debounced switch classifier and the auxiliary     *)
(* function dispatcher.                                                    *)
(*                                                                         *)
(* Spec          the control loop: clock, update(), read_aux(),            *)
(*               init_aux() and direct run_aux_function() calls.           *)
(* SpecOverride  the control loop's update()/has_override() interleaved    *)
(*               with set_override()/clear_override() running in another   *)
(*               context, store by store.                                  *)
(* SpecChannels  the channel set: find_channel_for_option(),               *)
(*               duplicate_options_exist() and convert_options().          *)
(* SpecConvert   the conversions of the input normalizer under every       *)
(*               calibration of a small grid.                              *)
(* SpecHandlers  repeated dispatches, with the state of the subsystems the *)
(*               handlers call into.                                       *)
(* SpecDebounce  a switch sampled over more than one debounce window;      *)
(*               SpecHold adds init_aux(), SpecLive the scheduling of the   *)
(*               control loop, SpecInit every group of init_aux_function(). *)
(* SpecReassign  convert_options() changing the channel's function between *)
(*               two read_aux() calls.                                     *)
(* SpecMode      the flight mode channel: read_mode_switch() and           *)
(*               reset_mode_switch().                                      *)
(* SpecEnable    the RC_OVERRIDE_ENABLE handler against set_override().    *)
(* SpecStale     overrides arriving and expiring on an auxiliary channel   *)
(*               that may have no receiver.                                *)
(***************************************************************************)
EXTENDS Integers, Sequences, FiniteSets, TLC

VARIABLES
    now,                    \* AP_HAL::millis(), uint32_t
    has_had_rc_receiver,    \* rc().has_had_rc_receiver()
    ignore_overrides,       \* RC_Channels::Option::IGNORE_OVERRIDES
    ignore_receiver,        \* RC_Channels::Option::IGNORE_RECEIVER
    allow_switch_rev,       \* RC_Channels::Option::ALLOW_SWITCH_REV
    gcs_overrides_enabled,  \* rc().gcs_overrides_enabled()
    override_timeout,       \* rc().get_override_timeout_ms(): -1 disabled, else ms
    radio_min, radio_trim, radio_max, dead_zone, reversed, option,
    type_in, high_in,
    radio_in, control_in,
    override_value, last_override_time,
    switch_state,           \* current_position, debounce_position, last_edge_time_ms, initialised
    ovr,                    \* the call of set_override/clear_override in progress
    hist,                   \* what the environment did so far (samples, calls)
    channels,               \* RC_Channels: each channel's option, in memory and saved
    subsystems,             \* state of the subsystems the handlers call into
    last_call               \* what the latest operation did

vars == << now, has_had_rc_receiver, ignore_overrides, ignore_receiver,
           allow_switch_rev, gcs_overrides_enabled, override_timeout,
           radio_min, radio_trim, radio_max, dead_zone, reversed, option,
           type_in, high_in, radio_in, control_in,
           override_value, last_override_time, switch_state, ovr, hist, channels,
           subsystems, last_call >>

(***************************************************************************)
(* Bounds of the model.                                                    *)
(***************************************************************************)
TickMs == 100
MaxTicks == 3
MaxDebounceTicks == 5
MaxOverrideCalls == 3

(***************************************************************************)
(* Program constants.                                                      *)
(***************************************************************************)
\* the millisecond counters are unsigned and wrap; the model keeps the modular
\* arithmetic of uint32_t on a counter narrowed to 20 bits
ClockMod == 1048576
SWITCH_DEBOUNCE_TIME_MS == 200
RC_MIN_LIMIT_PWM == 800
RC_MAX_LIMIT_PWM == 2200
AUX_SWITCH_PWM_TRIGGER_LOW == 1200
AUX_SWITCH_PWM_TRIGGER_HIGH == 1800
LOW == 0
MIDDLE == 1
HIGH == 2
ChIn == 6

\* receiver pulse widths the environment delivers: both sides of the sanity
\* window and one value in each 3-position band
RcinSamples == {800, 1000, 1500, 2000, 2200}

AuxSwitchPos == {LOW, MIDDLE, HIGH}

\* "UNKNOWN" stands for an id no switch statement of the file names
AuxFuncs == {"DO_NOTHING", "ARMDISARM", "ARMDISARM_AIRMODE", "ARM_EMERGENCY_STOP",
             "MOTOR_ESTOP", "RC_OVERRIDE_ENABLE", "CAMERA_REC_VIDEO",
             "VTX_POWER", "UNKNOWN"}

Sub32(a, b) == (a - b) % ClockMod

TruncDiv(a, b) ==
    IF (a >= 0) = (b > 0) THEN a \div b
    ELSE IF b > 0 THEN -((-a) \div b) ELSE -(a \div (-b))

constrain_int16(amt, low, high) ==
    IF amt < low THEN low ELSE IF amt > high THEN high ELSE amt

(***************************************************************************)
(* Channel set                                                             *)
(***************************************************************************)
\* the model's number of channels; index i stands for channel(i-1)
NumChannels == 3
Channels == 1..NumChannels

DO_NOTHING_ID == 0
\* one more than the largest function id
AUX_FUNCTION_MAX == 317

\* option values of the channels: DO_NOTHING, CAMERA_TRIGGER, ARMDISARM, the
\* first id past the bitmask and a negative parameter value
OptionIds == {0, 9, 153, AUX_FUNCTION_MAX, -1}

\* (uint16_t) of an int16_t
Uint16(x) == x % 65536

\* the scan of find_channel_for_option from channel i; 0 stands for nullptr
RECURSIVE find_scan(_, _, _)
find_scan(chs, func, i) ==
    IF i > Len(chs) THEN 0
    ELSE IF chs[i].option = func THEN i
    ELSE find_scan(chs, func, i + 1)

\* mutant: the scan keeps the last match
find_channel_for_option_last(chs, func) ==
    IF \E i \in DOMAIN chs : chs[i].option = func
    THEN CHOOSE i \in DOMAIN chs :
            /\ chs[i].option = func
            /\ \A j \in DOMAIN chs : chs[j].option = func => j <= i
    ELSE 0

find_channel_for_option(chs, func) == find_scan(chs, func, 1)

\* the scan of duplicate_options_exist from channel i with bitmask used
RECURSIVE dup_scan(_, _, _)
dup_scan(chs, i, used) ==
    IF i > Len(chs) THEN FALSE
    ELSE LET opt == Uint16(chs[i].option)
         IN  IF opt = DO_NOTHING_ID THEN dup_scan(chs, i + 1, used)
             ELSE IF opt >= AUX_FUNCTION_MAX THEN dup_scan(chs, i + 1, used)
             ELSE IF opt \in used THEN TRUE
             ELSE dup_scan(chs, i + 1, used \cup {opt})

\* mutant: ids past the bitmask are compared too
duplicate_options_exist_norange(chs) ==
    \E i, j \in DOMAIN chs :
        i # j /\ chs[i].option = chs[j].option /\ chs[i].option # DO_NOTHING_ID

duplicate_options_exist(chs) == dup_scan(chs, 1, {})

\* mutant: only the first channel assigned old_option is rewritten
convert_options_first(chs, old_option, new_option) ==
    [i \in DOMAIN chs |->
        IF i = find_scan(chs, old_option, 1)
        THEN [option |-> new_option, saved |-> new_option]
        ELSE chs[i]]

\* set_and_save on every channel assigned old_option
convert_options(chs, old_option, new_option) ==
    [i \in DOMAIN chs |->
        IF chs[i].option = old_option
        THEN [option |-> new_option, saved |-> new_option]
        ELSE chs[i]]

(***************************************************************************)
(* Channel Input Normalizer                                                *)
(***************************************************************************)
\* mutant: the dead zone around trim is not applied
pwm_to_angle_dz_trim_nodz(in, dz, trim, rmin, rmax, rev, high) ==
    LET radio_trim_high == trim
        radio_trim_low  == trim
        reverse_mul     == IF rev THEN -1 ELSE 1
        r_in            == constrain_int16(in, rmin, rmax)
    IN  IF r_in > radio_trim_high /\ rmax # radio_trim_high
        THEN TruncDiv(reverse_mul * high * (r_in - radio_trim_high), rmax - radio_trim_high)
        ELSE IF r_in < radio_trim_low /\ radio_trim_low # rmin
        THEN TruncDiv(reverse_mul * high * (r_in - radio_trim_low), radio_trim_low - rmin)
        ELSE 0

pwm_to_angle_dz_trim(in, dz, trim, rmin, rmax, rev, high) ==
    LET radio_trim_high == trim + dz
        radio_trim_low  == trim - dz
        reverse_mul     == IF rev THEN -1 ELSE 1
        r_in            == constrain_int16(in, rmin, rmax)
    IN  IF r_in > radio_trim_high /\ rmax # radio_trim_high
        THEN TruncDiv(reverse_mul * high * (r_in - radio_trim_high), rmax - radio_trim_high)
        ELSE IF r_in < radio_trim_low /\ radio_trim_low # rmin
        THEN TruncDiv(reverse_mul * high * (r_in - radio_trim_low), radio_trim_low - rmin)
        ELSE 0

\* the denominators pwm_to_angle_dz_trim divides by
pwm_to_angle_dz_trim_div(in, dz, trim, rmin, rmax) ==
    LET radio_trim_high == trim + dz
        radio_trim_low  == trim - dz
        r_in            == constrain_int16(in, rmin, rmax)
    IN  IF r_in > radio_trim_high /\ rmax # radio_trim_high
        THEN << rmax - radio_trim_high >>
        ELSE IF r_in < radio_trim_low /\ radio_trim_low # rmin
        THEN << radio_trim_low - rmin >>
        ELSE << >>

\* mutant: a reversed channel is not mirrored
pwm_to_range_dz_noreverse(in, dz, rmin, rmax, rev, high) ==
    LET r_in == constrain_int16(in, rmin, rmax)
        radio_trim_low == rmin + dz
    IN  IF r_in > radio_trim_low
        THEN TruncDiv(high * (r_in - radio_trim_low), rmax - radio_trim_low)
        ELSE 0

\* mutant: the dead zone above radio_min is not applied
pwm_to_range_dz_nodz(in, dz, rmin, rmax, rev, high) ==
    LET c_in == constrain_int16(in, rmin, rmax)
        r_in == IF rev THEN rmax - (c_in - rmin) ELSE c_in
        radio_trim_low == rmin
    IN  IF r_in > radio_trim_low
        THEN TruncDiv(high * (r_in - radio_trim_low), rmax - radio_trim_low)
        ELSE 0

pwm_to_range_dz(in, dz, rmin, rmax, rev, high) ==
    LET c_in == constrain_int16(in, rmin, rmax)
        r_in == IF rev THEN rmax - (c_in - rmin) ELSE c_in
        radio_trim_low == rmin + dz
    IN  IF r_in > radio_trim_low
        THEN TruncDiv(high * (r_in - radio_trim_low), rmax - radio_trim_low)
        ELSE 0

\* the denominators pwm_to_range_dz divides by
pwm_to_range_dz_div(in, dz, rmin, rmax, rev) ==
    LET c_in == constrain_int16(in, rmin, rmax)
        r_in == IF rev THEN rmax - (c_in - rmin) ELSE c_in
        radio_trim_low == rmin + dz
    IN  IF r_in > radio_trim_low THEN << rmax - radio_trim_low >> ELSE << >>

\* constrain_float(n/d, -1, 1) of a quotient with d > 0, as numerator and
\* denominator
constrain_unit(n, d) ==
    IF n > d THEN [n |-> 1, d |-> 1]
    ELSE IF n < -d THEN [n |-> -1, d |-> 1]
    ELSE [n |-> n, d |-> d]

\* the conversions below give val, the quotient returned, and div, the
\* denominators divided by
norm_input(in, trim, rmin, rmax, rev) ==
    LET reverse_mul == IF rev THEN -1 ELSE 1
    IN  IF in < trim
        THEN IF rmin >= trim
             THEN [val |-> [n |-> 0, d |-> 1], div |-> << >>]
             ELSE [val |-> constrain_unit(reverse_mul * (in - trim), trim - rmin),
                   div |-> << trim - rmin >>]
        ELSE IF rmax <= trim
             THEN [val |-> [n |-> 0, d |-> 1], div |-> << >>]
             ELSE [val |-> constrain_unit(reverse_mul * (in - trim), rmax - trim),
                   div |-> << rmax - trim >>]

norm_input_dz(in, dz, trim, rmin, rmax, rev) ==
    LET dz_min == trim - dz
        dz_max == trim + dz
        reverse_mul == IF rev THEN -1 ELSE 1
    IN  IF in < dz_min /\ dz_min > rmin
        THEN [val |-> constrain_unit(reverse_mul * (in - dz_min), dz_min - rmin),
              div |-> << dz_min - rmin >>]
        ELSE IF in > dz_max /\ rmax > dz_max
        THEN [val |-> constrain_unit(reverse_mul * (in - dz_max), rmax - dz_max),
              div |-> << rmax - dz_max >>]
        ELSE [val |-> [n |-> 0, d |-> 1], div |-> << >>]

\* (reversed ? -2 : 2) * ((in - min)/(max - min) - 0.5)
norm_input_ignore_trim(in, rmin, rmax, rev) ==
    IF rmax <= rmin
    THEN [val |-> [n |-> 0, d |-> 1], div |-> << >>]
    ELSE [val |-> constrain_unit((IF rev THEN -1 ELSE 1) * (2 * (in - rmin) - (rmax - rmin)),
                                 rmax - rmin),
          div |-> << rmax - rmin >>]

percent_input(in, rmin, rmax, rev) ==
    IF in <= rmin THEN [val |-> IF rev THEN 100 ELSE 0, div |-> << >>]
    ELSE IF in >= rmax THEN [val |-> IF rev THEN 0 ELSE 100, div |-> << >>]
    ELSE LET ret == TruncDiv(100 * (in - rmin), rmax - rmin)
         IN  [val |-> IF rev THEN 100 - ret ELSE ret, div |-> << rmax - rmin >>]

\* the integer division of get_control_mid; with a zero denominator the
\* division is undefined and val is not used
get_control_mid(type, dz, rmin, rmax, high) ==
    IF type = "RANGE"
    THEN LET r_in == TruncDiv(rmin + rmax, 2)
             radio_trim_low == rmin + dz
             den == rmax - radio_trim_low
         IN  [val |-> IF den = 0 THEN 0 ELSE TruncDiv(high * (r_in - radio_trim_low), den),
              div |-> << den >>]
    ELSE [val |-> 0, div |-> << >>]

(***************************************************************************)
(* Override Arbiter                                                        *)
(***************************************************************************)
\* mutant: an override is still in force when exactly the timeout has elapsed
has_override_inclusive(ov, ot, timeout, tnow) ==
    IF ov = 0 THEN FALSE
    ELSE IF timeout < 0 THEN TRUE
    ELSE IF timeout = 0 THEN FALSE
    ELSE Sub32(tnow, ot) <= timeout

\* mutant: a positive timeout is never applied
has_override_notimeout(ov, ot, timeout, tnow) ==
    IF ov = 0 THEN FALSE
    ELSE IF timeout < 0 THEN TRUE
    ELSE IF timeout = 0 THEN FALSE
    ELSE TRUE

has_override(ov, ot, timeout, tnow) ==
    IF ov = 0 THEN FALSE
    ELSE IF timeout < 0 THEN TRUE
    ELSE IF timeout = 0 THEN FALSE
    ELSE Sub32(tnow, ot) < timeout

\* whether has_override() gets as far as reading last_override_time
has_override_reads_time(ov, timeout) == ov # 0 /\ timeout > 0

\* mutant: the live receiver sample is preferred to the override
update_source_receiver_first(ov, ot, timeout, tnow, ign_ovr, had_rx, ign_rx) ==
    IF had_rx /\ ~ign_rx THEN "receiver"
    ELSE IF has_override(ov, ot, timeout, tnow) /\ ~ign_ovr THEN "override"
    ELSE "none"

\* mutant: the receiver is read although receiver input is ignored
update_source_unsuppressed(ov, ot, timeout, tnow, ign_ovr, had_rx, ign_rx) ==
    IF has_override(ov, ot, timeout, tnow) /\ ~ign_ovr THEN "override"
    ELSE IF had_rx THEN "receiver"
    ELSE "none"

\* update(): the raw value it resolves, or "none"
update_source(ov, ot, timeout, tnow, ign_ovr, had_rx, ign_rx) ==
    IF has_override(ov, ot, timeout, tnow) /\ ~ign_ovr THEN "override"
    ELSE IF had_rx /\ ~ign_rx THEN "receiver"
    ELSE "none"

(***************************************************************************)
(* Debounced Discrete-Position Classifier                                  *)
(***************************************************************************)
\* mutant: the window is compared with > instead of >=
debounce_completed_late(ss, position, tnow_ms) ==
    IF ss.current_position = position
    THEN [ret |-> FALSE, ss |-> [ss EXCEPT !.debounce_position = position]]
    ELSE IF ss.debounce_position # position
    THEN [ret |-> FALSE,
          ss  |-> [ss EXCEPT !.debounce_position = position,
                             !.last_edge_time_ms = tnow_ms]]
    ELSE IF Sub32(tnow_ms, ss.last_edge_time_ms) > SWITCH_DEBOUNCE_TIME_MS
    THEN [ret |-> TRUE, ss |-> [ss EXCEPT !.current_position = position]]
    ELSE [ret |-> FALSE, ss |-> ss]

\* mutant: a sample equal to the latched position does not reset the candidate
debounce_completed_noreset(ss, position, tnow_ms) ==
    IF ss.current_position = position
    THEN [ret |-> FALSE, ss |-> ss]
    ELSE IF ss.debounce_position # position
    THEN [ret |-> FALSE,
          ss  |-> [ss EXCEPT !.debounce_position = position,
                             !.last_edge_time_ms = tnow_ms]]
    ELSE IF Sub32(tnow_ms, ss.last_edge_time_ms) >= SWITCH_DEBOUNCE_TIME_MS
    THEN [ret |-> TRUE, ss |-> [ss EXCEPT !.current_position = position]]
    ELSE [ret |-> FALSE, ss |-> ss]

\* mutant: the position is latched but the completion is not reported
debounce_completed_silent(ss, position, tnow_ms) ==
    IF ss.current_position = position
    THEN [ret |-> FALSE, ss |-> [ss EXCEPT !.debounce_position = position]]
    ELSE IF ss.debounce_position # position
    THEN [ret |-> FALSE,
          ss  |-> [ss EXCEPT !.debounce_position = position,
                             !.last_edge_time_ms = tnow_ms]]
    ELSE IF Sub32(tnow_ms, ss.last_edge_time_ms) >= SWITCH_DEBOUNCE_TIME_MS
    THEN [ret |-> FALSE, ss |-> [ss EXCEPT !.current_position = position]]
    ELSE [ret |-> FALSE, ss |-> ss]

\* mutant: a new candidate does not restart the window
debounce_completed_keepedge(ss, position, tnow_ms) ==
    IF ss.current_position = position
    THEN [ret |-> FALSE, ss |-> [ss EXCEPT !.debounce_position = position]]
    ELSE IF ss.debounce_position # position
    THEN [ret |-> FALSE, ss |-> [ss EXCEPT !.debounce_position = position]]
    ELSE IF Sub32(tnow_ms, ss.last_edge_time_ms) >= SWITCH_DEBOUNCE_TIME_MS
    THEN [ret |-> TRUE, ss |-> [ss EXCEPT !.current_position = position]]
    ELSE [ret |-> FALSE, ss |-> ss]

\* mutant: every sample of the candidate restarts the window
debounce_completed_restart(ss, position, tnow_ms) ==
    IF ss.current_position = position
    THEN [ret |-> FALSE, ss |-> [ss EXCEPT !.debounce_position = position]]
    ELSE [ret |-> FALSE,
          ss  |-> [ss EXCEPT !.debounce_position = position,
                             !.last_edge_time_ms = tnow_ms]]

\* mutant: the completion is reported but the position is not latched
debounce_completed_nolatch(ss, position, tnow_ms) ==
    IF ss.current_position = position
    THEN [ret |-> FALSE, ss |-> [ss EXCEPT !.debounce_position = position]]
    ELSE IF ss.debounce_position # position
    THEN [ret |-> FALSE,
          ss  |-> [ss EXCEPT !.debounce_position = position,
                             !.last_edge_time_ms = tnow_ms]]
    ELSE IF Sub32(tnow_ms, ss.last_edge_time_ms) >= SWITCH_DEBOUNCE_TIME_MS
    THEN [ret |-> TRUE, ss |-> ss]
    ELSE [ret |-> FALSE, ss |-> ss]

debounce_completed(ss, position, tnow_ms) ==
    IF ss.current_position = position
    THEN [ret |-> FALSE, ss |-> [ss EXCEPT !.debounce_position = position]]
    ELSE IF ss.debounce_position # position
    THEN [ret |-> FALSE,
          ss  |-> [ss EXCEPT !.debounce_position = position,
                             !.last_edge_time_ms = tnow_ms]]
    ELSE IF Sub32(tnow_ms, ss.last_edge_time_ms) >= SWITCH_DEBOUNCE_TIME_MS
    THEN [ret |-> TRUE, ss |-> [ss EXCEPT !.current_position = position]]
    ELSE [ret |-> FALSE, ss |-> ss]

\* mutant: each threshold belongs to the lower band
band_6pos_inclusive(pulsewidth) ==
    IF pulsewidth <= 1231 THEN 0
    ELSE IF pulsewidth <= 1361 THEN 1
    ELSE IF pulsewidth <= 1491 THEN 2
    ELSE IF pulsewidth <= 1621 THEN 3
    ELSE IF pulsewidth <= 1750 THEN 4
    ELSE 5

band_6pos(pulsewidth) ==
    IF pulsewidth < 1231 THEN 0
    ELSE IF pulsewidth < 1361 THEN 1
    ELSE IF pulsewidth < 1491 THEN 2
    ELSE IF pulsewidth < 1621 THEN 3
    ELSE IF pulsewidth < 1750 THEN 4
    ELSE 5

\* mutant: the limits themselves are accepted
in_sanity_window_open(pulsewidth) ==
    ~(pulsewidth < RC_MIN_LIMIT_PWM \/ pulsewidth > RC_MAX_LIMIT_PWM)

in_sanity_window(pulsewidth) ==
    ~(pulsewidth <= RC_MIN_LIMIT_PWM \/ pulsewidth >= RC_MAX_LIMIT_PWM)

\* valid: a reading was taken; ret: the function's result
\* mutant: a pulse width outside the sanity window cancels the candidate
read_6pos_switch_cancel(ss, pulsewidth, tnow_ms) ==
    IF ~in_sanity_window(pulsewidth)
    THEN [valid |-> FALSE, ret |-> FALSE, position |-> -1,
          ss |-> [ss EXCEPT !.debounce_position = ss.current_position]]
    ELSE LET d == debounce_completed(ss, band_6pos(pulsewidth), tnow_ms)
         IN  [valid |-> TRUE, ret |-> d.ret, position |-> band_6pos(pulsewidth),
              ss |-> d.ss]

read_6pos_switch(ss, pulsewidth, tnow_ms) ==
    IF ~in_sanity_window(pulsewidth)
    THEN [valid |-> FALSE, ret |-> FALSE, position |-> -1, ss |-> ss]
    ELSE LET d == debounce_completed(ss, band_6pos(pulsewidth), tnow_ms)
         IN  [valid |-> TRUE, ret |-> d.ret, position |-> band_6pos(pulsewidth),
              ss |-> d.ss]

\* mode_switch_changed(position), as the name of the call made
mode_switch_changed(position) ==
    << "mode_switch_changed_0", "mode_switch_changed_1", "mode_switch_changed_2",
       "mode_switch_changed_3", "mode_switch_changed_4", "mode_switch_changed_5"
    >>[position + 1]

read_mode_switch(ss, pulsewidth, tnow_ms) ==
    LET r == read_6pos_switch(ss, pulsewidth, tnow_ms)
    IN  [ret |-> r.ret, ss |-> r.ss,
         ext |-> IF r.ret THEN << mode_switch_changed(r.position) >> ELSE << >>]

\* mutant: the latched position survives the reset
reset_mode_switch_keep(ss, pulsewidth, tnow_ms) ==
    read_mode_switch([ss EXCEPT !.debounce_position = -1], pulsewidth, tnow_ms)

reset_mode_switch(ss, pulsewidth, tnow_ms) ==
    read_mode_switch([ss EXCEPT !.current_position = -1, !.debounce_position = -1],
                     pulsewidth, tnow_ms)

\* mutant: the channel's reversed flag swaps the switch without the global permission
read_3pos_switch_always_rev(in, rev, allow_rev) ==
    IF ~in_sanity_window(in) THEN [ret |-> FALSE, pos |-> -1]
    ELSE LET switch_reversed == rev
         IN  IF in < AUX_SWITCH_PWM_TRIGGER_LOW
             THEN [ret |-> TRUE, pos |-> IF switch_reversed THEN HIGH ELSE LOW]
             ELSE IF in > AUX_SWITCH_PWM_TRIGGER_HIGH
             THEN [ret |-> TRUE, pos |-> IF switch_reversed THEN LOW ELSE HIGH]
             ELSE [ret |-> TRUE, pos |-> MIDDLE]

read_3pos_switch(in, rev, allow_rev) ==
    IF ~in_sanity_window(in) THEN [ret |-> FALSE, pos |-> -1]
    ELSE LET switch_reversed == rev /\ allow_rev
         IN  IF in < AUX_SWITCH_PWM_TRIGGER_LOW
             THEN [ret |-> TRUE, pos |-> IF switch_reversed THEN HIGH ELSE LOW]
             ELSE IF in > AUX_SWITCH_PWM_TRIGGER_HIGH
             THEN [ret |-> TRUE, pos |-> IF switch_reversed THEN LOW ELSE HIGH]
             ELSE [ret |-> TRUE, pos |-> MIDDLE]

(***************************************************************************)
(* Auxiliary Function Dispatcher                                           *)
(***************************************************************************)
\* mutant: ARMDISARM is missing from the list
init_position_on_first_radio_read_short(func) ==
    func \in {"ARMDISARM_AIRMODE", "ARM_EMERGENCY_STOP", "PARACHUTE_RELEASE"}

init_position_on_first_radio_read(func) ==
    func \in {"ARMDISARM_AIRMODE", "ARMDISARM", "ARM_EMERGENCY_STOP", "PARACHUTE_RELEASE"}

\* mutant: MIDDLE disables the overrides as LOW does
do_aux_function_rc_override_enable_middle(ch_flag, goe) ==
    IF ch_flag = HIGH THEN TRUE ELSE FALSE

\* the overrides-enabled flag do_aux_function_rc_override_enable leaves
do_aux_function_rc_override_enable(ch_flag, goe) ==
    IF ch_flag = HIGH THEN TRUE ELSE IF ch_flag = LOW THEN FALSE ELSE goe

\* mutant: the camera is triggered at every switch position
do_aux_function_camera_trigger_any(ch_flag, cam) ==
    IF cam THEN << "take_picture" >> ELSE << >>

\* the calls do_aux_function_camera_trigger makes; cam: the camera exists
do_aux_function_camera_trigger(ch_flag, cam) ==
    IF ch_flag = HIGH /\ cam THEN << "take_picture" >> ELSE << >>

\* mutant: the default case breaks out of the switch instead of returning false
do_aux_function_nodefault(func, ch_flag, goe, cam) ==
    CASE func = "RC_OVERRIDE_ENABLE" ->
            [ret |-> TRUE, ext |-> << >>,
             goe |-> do_aux_function_rc_override_enable(ch_flag, goe)]
      [] func = "RELAY" ->
            [ret |-> TRUE, goe |-> goe,
             ext |-> << IF ch_flag = HIGH THEN "relay0_on" ELSE "relay0_off" >>]
      [] func = "ARMDISARM" ->
            [ret |-> TRUE, goe |-> goe,
             ext |-> IF ch_flag = HIGH THEN << "arm" >>
                     ELSE IF ch_flag = LOW THEN << "disarm" >> ELSE << >>]
      [] func = "MOTOR_ESTOP" ->
            [ret |-> TRUE, goe |-> goe,
             ext |-> IF ch_flag = HIGH THEN << "estop_on" >>
                     ELSE IF ch_flag = LOW THEN << "estop_off" >> ELSE << >>]
      [] func = "CAMERA_TRIGGER" ->
            [ret |-> TRUE, goe |-> goe,
             ext |-> do_aux_function_camera_trigger(ch_flag, cam)]
      [] func = "CAM_MODE_TOGGLE" ->
            [ret |-> TRUE, goe |-> goe,
             ext |-> IF cam /\ ch_flag = HIGH THEN << "cam_mode_toggle" >> ELSE << >>]
      [] func = "EKF_LANE_SWITCH" ->
            [ret |-> TRUE, goe |-> goe, ext |-> << "check_lane_switch" >>]
      [] func = "CAMERA_REC_VIDEO" ->
            [ret |-> cam, goe |-> goe,
             ext |-> IF cam THEN << IF ch_flag = HIGH THEN "rec_on" ELSE "rec_off" >>
                     ELSE << >>]
      [] func = "ARM_EMERGENCY_STOP" ->
            [ret |-> TRUE, goe |-> goe,
             ext |-> IF ch_flag = HIGH THEN << "estop_off", "arm" >>
                     ELSE IF ch_flag = MIDDLE THEN << "estop_off" >>
                     ELSE << "estop_on" >>]
      [] OTHER -> [ret |-> TRUE, ext |-> << >>, goe |-> goe]

\* the calls do_aux_function makes into other subsystems, its result and the
\* vehicle-wide overrides-enabled flag it leaves; cam is the camera's answer
do_aux_function(func, ch_flag, goe, cam) ==
    CASE func = "RC_OVERRIDE_ENABLE" ->
            [ret |-> TRUE, ext |-> << >>,
             goe |-> do_aux_function_rc_override_enable(ch_flag, goe)]
      [] func = "RELAY" ->
            [ret |-> TRUE, goe |-> goe,
             ext |-> << IF ch_flag = HIGH THEN "relay0_on" ELSE "relay0_off" >>]
      [] func = "ARMDISARM" ->
            [ret |-> TRUE, goe |-> goe,
             ext |-> IF ch_flag = HIGH THEN << "arm" >>
                     ELSE IF ch_flag = LOW THEN << "disarm" >> ELSE << >>]
      [] func = "MOTOR_ESTOP" ->
            [ret |-> TRUE, goe |-> goe,
             ext |-> IF ch_flag = HIGH THEN << "estop_on" >>
                     ELSE IF ch_flag = LOW THEN << "estop_off" >> ELSE << >>]
      [] func = "CAMERA_TRIGGER" ->
            [ret |-> TRUE, goe |-> goe,
             ext |-> do_aux_function_camera_trigger(ch_flag, cam)]
      [] func = "CAM_MODE_TOGGLE" ->
            [ret |-> TRUE, goe |-> goe,
             ext |-> IF cam /\ ch_flag = HIGH THEN << "cam_mode_toggle" >> ELSE << >>]
      [] func = "EKF_LANE_SWITCH" ->
            [ret |-> TRUE, goe |-> goe, ext |-> << "check_lane_switch" >>]
      [] func = "CAMERA_REC_VIDEO" ->
            [ret |-> cam, goe |-> goe,
             ext |-> IF cam THEN << IF ch_flag = HIGH THEN "rec_on" ELSE "rec_off" >>
                     ELSE << >>]
      [] func = "ARM_EMERGENCY_STOP" ->
            [ret |-> TRUE, goe |-> goe,
             ext |-> IF ch_flag = HIGH THEN << "estop_off", "arm" >>
                     ELSE IF ch_flag = MIDDLE THEN << "estop_off" >>
                     ELSE << "estop_on" >>]
      [] OTHER -> [ret |-> FALSE, ext |-> << >>, goe |-> goe]

\* one AuxFuncTrigger, the handler's effects and the AUXF record written
run_aux_function(ch_option, pos, source, source_index, goe, cam) ==
    LET trigger == [func |-> ch_option, pos |-> pos, source |-> source,
                    source_index |-> source_index]
        r == do_aux_function(ch_option, pos, goe, cam)
    IN  [ret  |-> r.ret,
         trig |-> << trigger >>,
         hret |-> << r.ret >>,
         ext  |-> r.ext,
         goe  |-> r.goe,
         log  |-> << [function |-> ch_option, pos |-> pos, source |-> source,
                      index |-> source_index, result |-> r.ret] >>]

\* AP::vtx().change_power(position), as the name of the call made
vtx_change_power(position) ==
    << "vtx_power_0", "vtx_power_1", "vtx_power_2", "vtx_power_3", "vtx_power_4",
       "vtx_power_5" >>[position + 1]

NoDispatch(ret, ss, goe) ==
    [ret |-> ret, ss |-> ss, goe |-> goe, trig |-> << >>, hret |-> << >>,
     ext |-> << >>, log |-> << >>]

\* mutant: read_aux returns what the handler returned
read_aux_handler_result(opt, ss, in, rev, allow_rev, tnow_ms, goe, cam) ==
    IF opt = "DO_NOTHING" THEN NoDispatch(FALSE, ss, goe)
    ELSE IF opt = "VTX_POWER"
    THEN LET r == read_6pos_switch(ss, in, tnow_ms)
         IN  IF r.ret
             THEN [ret |-> TRUE, ss |-> r.ss, goe |-> goe, trig |-> << >>,
                   hret |-> << >>, ext |-> << vtx_change_power(r.position) >>,
                   log |-> << >>]
             ELSE NoDispatch(FALSE, r.ss, goe)
    ELSE LET p == read_3pos_switch(in, rev, allow_rev)
         IN  IF ~p.ret THEN NoDispatch(FALSE, ss, goe)
             ELSE LET ss1 == IF ~ss.initialised
                             THEN IF init_position_on_first_radio_read(opt)
                                  THEN [ss EXCEPT !.initialised = TRUE,
                                                  !.current_position = p.pos,
                                                  !.debounce_position = p.pos]
                                  ELSE [ss EXCEPT !.initialised = TRUE]
                             ELSE ss
                      d == debounce_completed(ss1, p.pos, tnow_ms)
                  IN  IF ~d.ret THEN NoDispatch(FALSE, d.ss, goe)
                      ELSE LET r == run_aux_function(opt, p.pos, "RC", ChIn, goe, cam)
                           IN  [ret |-> r.ret, ss |-> d.ss, goe |-> r.goe,
                                trig |-> r.trig, hret |-> r.hret, ext |-> r.ext,
                                log |-> r.log]

\* mutant: DO_NOTHING is read like any other function id
read_aux_no_nothing(opt, ss, in, rev, allow_rev, tnow_ms, goe, cam) ==
    IF opt = "VTX_POWER"
    THEN LET r == read_6pos_switch(ss, in, tnow_ms)
         IN  IF r.ret
             THEN [ret |-> TRUE, ss |-> r.ss, goe |-> goe, trig |-> << >>,
                   hret |-> << >>, ext |-> << vtx_change_power(r.position) >>,
                   log |-> << >>]
             ELSE NoDispatch(FALSE, r.ss, goe)
    ELSE LET p == read_3pos_switch(in, rev, allow_rev)
         IN  IF ~p.ret THEN NoDispatch(FALSE, ss, goe)
             ELSE LET ss1 == IF ~ss.initialised
                             THEN IF init_position_on_first_radio_read(opt)
                                  THEN [ss EXCEPT !.initialised = TRUE,
                                                  !.current_position = p.pos,
                                                  !.debounce_position = p.pos]
                                  ELSE [ss EXCEPT !.initialised = TRUE]
                             ELSE ss
                      d == debounce_completed(ss1, p.pos, tnow_ms)
                  IN  IF ~d.ret THEN NoDispatch(FALSE, d.ss, goe)
                      ELSE LET r == run_aux_function(opt, p.pos, "RC", ChIn, goe, cam)
                           IN  [ret |-> TRUE, ss |-> d.ss, goe |-> r.goe,
                                trig |-> r.trig, hret |-> r.hret, ext |-> r.ext,
                                log |-> r.log]

\* mutant: VTX_POWER is read with the 3-position classifier
read_aux_vtx_3pos(opt, ss, in, rev, allow_rev, tnow_ms, goe, cam) ==
    IF opt = "DO_NOTHING" THEN NoDispatch(FALSE, ss, goe)
    ELSE IF opt = "VTX_POWER"
    THEN LET p == read_3pos_switch(in, rev, allow_rev)
             d == debounce_completed(ss, p.pos, tnow_ms)
         IN  IF ~p.ret THEN NoDispatch(FALSE, ss, goe)
             ELSE IF d.ret
             THEN [ret |-> TRUE, ss |-> d.ss, goe |-> goe, trig |-> << >>,
                   hret |-> << >>, ext |-> << vtx_change_power(p.pos) >>,
                   log |-> << >>]
             ELSE NoDispatch(FALSE, d.ss, goe)
    ELSE LET p == read_3pos_switch(in, rev, allow_rev)
         IN  IF ~p.ret THEN NoDispatch(FALSE, ss, goe)
             ELSE LET ss1 == IF ~ss.initialised
                             THEN IF init_position_on_first_radio_read(opt)
                                  THEN [ss EXCEPT !.initialised = TRUE,
                                                  !.current_position = p.pos,
                                                  !.debounce_position = p.pos]
                                  ELSE [ss EXCEPT !.initialised = TRUE]
                             ELSE ss
                      d == debounce_completed(ss1, p.pos, tnow_ms)
                  IN  IF ~d.ret THEN NoDispatch(FALSE, d.ss, goe)
                      ELSE LET r == run_aux_function(opt, p.pos, "RC", ChIn, goe, cam)
                           IN  [ret |-> TRUE, ss |-> d.ss, goe |-> r.goe,
                                trig |-> r.trig, hret |-> r.hret, ext |-> r.ext,
                                log |-> r.log]

read_aux(opt, ss, in, rev, allow_rev, tnow_ms, goe, cam) ==
    IF opt = "DO_NOTHING" THEN NoDispatch(FALSE, ss, goe)
    ELSE IF opt = "VTX_POWER"
    THEN LET r == read_6pos_switch(ss, in, tnow_ms)
         IN  IF r.ret
             THEN [ret |-> TRUE, ss |-> r.ss, goe |-> goe, trig |-> << >>,
                   hret |-> << >>, ext |-> << vtx_change_power(r.position) >>,
                   log |-> << >>]
             ELSE NoDispatch(FALSE, r.ss, goe)
    ELSE LET p == read_3pos_switch(in, rev, allow_rev)
         IN  IF ~p.ret THEN NoDispatch(FALSE, ss, goe)
             ELSE LET ss1 == IF ~ss.initialised
                             THEN IF init_position_on_first_radio_read(opt)
                                  THEN [ss EXCEPT !.initialised = TRUE,
                                                  !.current_position = p.pos,
                                                  !.debounce_position = p.pos]
                                  ELSE [ss EXCEPT !.initialised = TRUE]
                             ELSE ss
                      d == debounce_completed(ss1, p.pos, tnow_ms)
                  IN  IF ~d.ret THEN NoDispatch(FALSE, d.ss, goe)
                      ELSE LET r == run_aux_function(opt, p.pos, "RC", ChIn, goe, cam)
                           IN  [ret |-> TRUE, ss |-> d.ss, goe |-> r.goe,
                                trig |-> r.trig, hret |-> r.hret, ext |-> r.ext,
                                log |-> r.log]

\* mutant: the ids that need no initialisation are initialised too
init_aux_group_all(ch_option) ==
    CASE ch_option \in {"ARMDISARM", "ARMDISARM_AIRMODE", "DO_NOTHING", "RELAY",
                        "VTX_POWER", "CAMERA_TRIGGER", "EKF_LANE_SWITCH",
                        "MOTOR_ESTOP", "RC_OVERRIDE_ENABLE", "ARM_EMERGENCY_STOP",
                        "CAMERA_REC_VIDEO"} -> "run"
      [] OTHER -> "warn"

\* "skip": not to be initialised; "run": explicit initialization; "warn": default
init_aux_group(ch_option) ==
    CASE ch_option \in {"ARMDISARM", "ARMDISARM_AIRMODE", "DO_NOTHING", "RELAY",
                        "VTX_POWER", "CAMERA_TRIGGER", "EKF_LANE_SWITCH"} -> "skip"
      [] ch_option \in {"MOTOR_ESTOP", "RC_OVERRIDE_ENABLE", "ARM_EMERGENCY_STOP",
                        "CAMERA_REC_VIDEO"} -> "run"
      [] OTHER -> "warn"

init_aux_function(ch_option, ch_flag, ss, goe, cam) ==
    IF init_aux_group(ch_option) = "run"
    THEN LET r == run_aux_function(ch_option, ch_flag, "INIT", ChIn, goe, cam)
         IN  [ret |-> r.ret, ss |-> ss, goe |-> r.goe,
              trig |-> r.trig, hret |-> r.hret, ext |-> r.ext, log |-> r.log]
    ELSE NoDispatch(FALSE, ss, goe)

init_aux(opt, ss, in, rev, allow_rev, goe, cam) ==
    LET p == read_3pos_switch(in, rev, allow_rev)
        position == IF ~p.ret THEN LOW ELSE p.pos
    IN  init_aux_function(opt, position, ss, goe, cam)

(***************************************************************************)
(* State machine                                                           *)
(***************************************************************************)
\* set_angle(4500) and set_range(1000), as the vehicles call them
ControlModes == {<< "ANGLE", 4500 >>, << "RANGE", 1000 >>}

NoCall == [op |-> "none", ret |-> FALSE, trig |-> << >>, hret |-> << >>,
           ext |-> << >>, log |-> << >>, arg |-> "", torn |-> FALSE, val |-> 0,
           args |-> << >>, div |-> << >>]

NoRun == [pos |-> -1, since |-> 0, last |-> 0, p |-> -1, from_latched |-> FALSE,
          cancelled |-> FALSE, first |-> FALSE, dispatches |-> 0, gap |-> FALSE,
          reset |-> FALSE]

\* the subsystems at power-on: disarmed, nothing running, nothing requested
NoSubsystems == [armed |-> FALSE, estop |-> FALSE, relay0 |-> FALSE,
                 recording |-> FALSE, pictures |-> 0, cam_mode |-> 0,
                 lane_checks |-> 0]

\* the other channels of the set all have option 0, as var_info defaults them
InitVehicle ==
    /\ channels = [i \in Channels |-> [option |-> DO_NOTHING_ID, saved |-> DO_NOTHING_ID]]
    /\ subsystems = NoSubsystems

InitChannel ==
    /\ now = 0
    /\ radio_min = 1100
    /\ radio_trim = 1500
    /\ radio_max = 1900
    /\ dead_zone = 0
    /\ radio_in = 0
    /\ control_in = 0
    /\ override_value = 0
    /\ last_override_time = 0
    /\ switch_state = [current_position |-> -1, debounce_position |-> -1,
                       last_edge_time_ms |-> 0, initialised |-> FALSE]
    /\ ovr = [pc |-> "idle", v |-> 0, ts |-> 0, done |-> {}, id |-> 0,
              calls |-> 0, value_by |-> 0, time_by |-> 0]
    /\ hist \in [ticks : {0}, max_ticks : {MaxTicks, MaxDebounceTicks}, track : BOOLEAN,
                  prev_latched : {FALSE}, run : {NoRun}, init_pos : {-1},
                  expired : {FALSE}]
    /\ last_call = NoCall

Init ==
    /\ InitChannel
    /\ InitVehicle
    /\ ~hist.track
    /\ hist.max_ticks = MaxTicks
    /\ has_had_rc_receiver = TRUE
    /\ ignore_overrides = FALSE
    /\ ignore_receiver = FALSE
    /\ allow_switch_rev = FALSE
    /\ reversed = FALSE
    /\ gcs_overrides_enabled = TRUE
    /\ override_timeout = 3000
    /\ option \in AuxFuncs
    /\ type_in = "RANGE"
    /\ high_in = 1000

params == << has_had_rc_receiver, ignore_overrides, ignore_receiver, allow_switch_rev,
            override_timeout, radio_min, radio_trim, radio_max, dead_zone, reversed,
            option, type_in, high_in, channels, subsystems >>

override_vars == << override_value, last_override_time, ovr >>

\* the scheduler's clock advances
Tick ==
    /\ hist.ticks < hist.max_ticks
    /\ now' = (now + TickMs) % ClockMod
    /\ hist' = [hist EXCEPT !.ticks = @ + 1]
    /\ last_call' = [NoCall EXCEPT !.op = "tick"]
    /\ UNCHANGED << params, gcs_overrides_enabled, radio_in, control_in,
                    override_vars, switch_state >>

\* has_override() reads a value and a timestamp stored by different calls
torn_read ==
    /\ has_override_reads_time(override_value, override_timeout)
    /\ ovr.value_by # ovr.time_by

\* update(), with the receiver delivering pulse width rcin
Update(rcin) ==
    LET src == update_source(override_value, last_override_time, override_timeout, now,
                             ignore_overrides, has_had_rc_receiver, ignore_receiver)
        in  == IF src = "override" THEN override_value ELSE rcin
    IN  /\ IF src = "none"
           THEN UNCHANGED << radio_in, control_in >>
           ELSE /\ radio_in' = in
                /\ control_in' =
                       IF type_in = "RANGE"
                       THEN pwm_to_range_dz(in, dead_zone, radio_min, radio_max,
                                            reversed, high_in)
                       ELSE pwm_to_angle_dz_trim(in, dead_zone, radio_trim, radio_min,
                                                 radio_max, reversed, high_in)
        /\ last_call' = [NoCall EXCEPT !.op = "update", !.ret = (src # "none"),
                                       !.arg = src,
                                       !.torn = torn_read,
                                       !.val = IF src = "receiver" THEN rcin ELSE 0,
                                       !.div =
                                           IF src = "none" THEN << >>
                                           ELSE IF type_in = "RANGE"
                                           THEN pwm_to_range_dz_div(in, dead_zone,
                                                    radio_min, radio_max, reversed)
                                           ELSE pwm_to_angle_dz_trim_div(in, dead_zone,
                                                    radio_trim, radio_min, radio_max)]
        /\ UNCHANGED << now, params, gcs_overrides_enabled, override_vars, switch_state,
                        hist >>

\* the position the switch is sampled at by read_aux, -1 when it takes no sample
sampled_position(opt, in, rev, allow_rev) ==
    IF opt = "DO_NOTHING" THEN -1
    ELSE IF opt = "VTX_POWER"
    THEN IF in_sanity_window(in) THEN band_6pos(in) ELSE -1
    ELSE read_3pos_switch(in, rev, allow_rev).pos

\* the record of the runs of equal samples the debounce was given; cancelled: a
\* run at the latched position that interrupted a run of another position, or
\* the run that follows such a run; first: no valid sample came before the run;
\* dispatches: the read_aux calls of the run that returned true, counted to 2;
\* gap: a read without a valid sample fell into the run; reset: the run began
\* with the sample reset_mode_switch took
next_hist(h, q, latched_before, latched_after, t, ret) ==
    IF q = -1 THEN [h EXCEPT !.run.gap = (h.run.pos # -1)]
    ELSE [h EXCEPT
            !.run = IF h.run.pos = q
                    THEN [h.run EXCEPT !.last = t,
                                       !.dispatches = IF ret /\ @ < 2 THEN @ + 1 ELSE @]
                    ELSE [pos |-> q, since |-> t, last |-> t, p |-> latched_before,
                          first |-> h.run.pos = -1, gap |-> FALSE, reset |-> FALSE,
                          dispatches |-> IF ret THEN 1 ELSE 0,
                          from_latched |-> h.prev_latched,
                          cancelled |-> IF q = latched_before
                                        THEN h.run.pos # -1
                                        ELSE h.prev_latched /\ h.run.cancelled],
            !.prev_latched = (q = latched_after)]

ReadAux(cam) ==
    LET r == read_aux(option, switch_state, radio_in, reversed, allow_switch_rev, now,
                      gcs_overrides_enabled, cam)
        q == sampled_position(option, radio_in, reversed, allow_switch_rev)
    IN  /\ switch_state' = r.ss
        /\ gcs_overrides_enabled' = r.goe
        /\ hist' = IF hist.track
                   THEN next_hist(hist, q, switch_state.current_position,
                                  r.ss.current_position, now, r.ret)
                   ELSE hist
        /\ last_call' = [NoCall EXCEPT !.op = "read_aux", !.ret = r.ret,
                                       !.trig = r.trig, !.hret = r.hret,
                                       !.ext = r.ext, !.log = r.log]
        /\ UNCHANGED << now, params, radio_in, control_in, override_vars >>

InitAux(cam) ==
    LET r == init_aux(option, switch_state, radio_in, reversed, allow_switch_rev,
                      gcs_overrides_enabled, cam)
    IN  /\ switch_state' = r.ss
        /\ gcs_overrides_enabled' = r.goe
        /\ hist' = IF hist.track /\ r.trig # << >>
                   THEN [hist EXCEPT !.init_pos = r.trig[1].pos]
                   ELSE hist
        /\ last_call' = [NoCall EXCEPT !.op = "init_aux", !.ret = r.ret,
                                       !.trig = r.trig, !.hret = r.hret,
                                       !.ext = r.ext, !.log = r.log]
        /\ UNCHANGED << now, params, radio_in, control_in, override_vars >>

\* a caller other than the channel's own switch dispatches func at pos
RunAuxFunction(func, pos, cam) ==
    LET r == run_aux_function(func, pos, "SCRIPTING", 0, gcs_overrides_enabled, cam)
    IN  /\ gcs_overrides_enabled' = r.goe
        /\ last_call' = [NoCall EXCEPT !.op = "run_aux_function", !.ret = r.ret,
                                       !.trig = r.trig, !.hret = r.hret,
                                       !.ext = r.ext, !.log = r.log,
                                       !.arg = func]
        /\ UNCHANGED << now, params, radio_in, control_in, override_vars,
                        switch_state, hist >>

\* ids dispatched by callers other than the switch: one with no handler, one
\* whose handler can fail, one whose handler cannot
DirectFuncs == {"UNKNOWN", "CAMERA_REC_VIDEO", "MOTOR_ESTOP"}

Next ==
    \/ Tick
    \/ \E rcin \in RcinSamples : Update(rcin)
    \/ \E cam \in BOOLEAN : ReadAux(cam)
    \/ \E cam \in BOOLEAN : InitAux(cam)
    \/ \E func \in DirectFuncs, pos \in AuxSwitchPos, cam \in BOOLEAN :
          RunAuxFunction(func, pos, cam)

Spec == Init /\ [][Next]_vars

(***************************************************************************)
(* SpecStartup: power-on with the switch held HIGH.  The receiver delivers *)
(* only pulse widths the channel classifies as HIGH, and nothing but the   *)
(* channel's own init_aux/update/read_aux runs.                            *)
(***************************************************************************)
ArmClass == {"ARMDISARM", "ARMDISARM_AIRMODE", "ARM_EMERGENCY_STOP"}

InitStartup ==
    /\ InitChannel
    /\ InitVehicle
    /\ ~hist.track
    /\ hist.max_ticks = MaxTicks
    /\ has_had_rc_receiver = TRUE
    /\ ignore_overrides = FALSE
    /\ ignore_receiver = FALSE
    /\ allow_switch_rev \in BOOLEAN
    /\ reversed \in BOOLEAN
    /\ gcs_overrides_enabled = TRUE
    /\ override_timeout = 3000
    /\ option \in ArmClass
    /\ \E m \in ControlModes : type_in = m[1] /\ high_in = m[2]

HighSamples == {1000, 2000}

UpdateHigh(rcin) ==
    /\ read_3pos_switch(rcin, reversed, allow_switch_rev).pos = HIGH
    /\ Update(rcin)

NextStartup ==
    \/ Tick
    \/ \E rcin \in HighSamples : UpdateHigh(rcin)
    \/ \E cam \in BOOLEAN : ReadAux(cam)
    \/ \E cam \in BOOLEAN : InitAux(cam)

SpecStartup == InitStartup /\ [][NextStartup]_vars

(***************************************************************************)
(* SpecDebounce: the control loop alone, with the runs of equal samples    *)
(* recorded in hist.                                                       *)
(***************************************************************************)
DebounceFuncs == {"MOTOR_ESTOP", "ARMDISARM", "VTX_POWER"}

InitDebounce ==
    /\ InitChannel
    /\ InitVehicle
    /\ hist.track
    /\ hist.max_ticks = MaxDebounceTicks
    /\ has_had_rc_receiver = TRUE
    /\ ignore_overrides = FALSE
    /\ ignore_receiver = FALSE
    /\ allow_switch_rev = TRUE
    /\ reversed \in BOOLEAN
    /\ gcs_overrides_enabled = TRUE
    /\ override_timeout = 3000
    /\ option \in DebounceFuncs
    /\ type_in = "ANGLE"
    /\ high_in = 4500

NextDebounce ==
    \/ Tick
    \/ \E rcin \in RcinSamples : Update(rcin)
    \/ \E cam \in BOOLEAN : ReadAux(cam)

SpecDebounce == InitDebounce /\ [][NextDebounce]_vars

(***************************************************************************)
(* SpecHold: SpecDebounce with init_aux() as well, run at any time.        *)
(***************************************************************************)
NextHold ==
    \/ Tick
    \/ \E rcin \in RcinSamples : Update(rcin)
    \/ \E cam \in BOOLEAN : ReadAux(cam)
    \/ \E cam \in BOOLEAN : InitAux(cam)

SpecHold == InitDebounce /\ [][NextHold]_vars

(***************************************************************************)
(* SpecReassign: the channel's function id is rewritten at run time by     *)
(* convert_options() between the control loop's update() and read_aux().   *)
(***************************************************************************)
ReassignFuncs == {"MOTOR_ESTOP", "ARMDISARM"}

InitReassign ==
    /\ InitChannel
    /\ InitVehicle
    /\ ~hist.track
    /\ hist.max_ticks = MaxTicks
    /\ has_had_rc_receiver = TRUE
    /\ ignore_overrides = FALSE
    /\ ignore_receiver = FALSE
    /\ allow_switch_rev = FALSE
    /\ reversed = FALSE
    /\ gcs_overrides_enabled = TRUE
    /\ override_timeout = 3000
    /\ option \in ReassignFuncs
    /\ type_in = "ANGLE"
    /\ high_in = 4500

\* convert_options(old_option, new_option), as it acts on this channel
ConvertOption(old_option, new_option) ==
    /\ option' = convert_options(<< [option |-> option, saved |-> option] >>,
                                 old_option, new_option)[1].option
    /\ last_call' = [NoCall EXCEPT !.op = "convert_options",
                                   !.args = << old_option, new_option >>]
    /\ UNCHANGED << now, has_had_rc_receiver, ignore_overrides, ignore_receiver,
                    allow_switch_rev, override_timeout, radio_min, radio_trim,
                    radio_max, dead_zone, reversed, type_in, high_in, channels,
                    subsystems, gcs_overrides_enabled, radio_in, control_in,
                    override_vars, switch_state, hist >>

NextReassign ==
    \/ Tick
    \/ \E rcin \in RcinSamples : Update(rcin)
    \/ \E cam \in BOOLEAN : ReadAux(cam)
    \/ \E old_option, new_option \in ReassignFuncs :
          ConvertOption(old_option, new_option)

SpecReassign == InitReassign /\ [][NextReassign]_vars

(***************************************************************************)
(* SpecInit: init_aux() for ids of each group of init_aux_function, called *)
(* before and after the switch has been read.                              *)
(***************************************************************************)
InitFuncs == {"ARMDISARM", "ARMDISARM_AIRMODE", "RELAY", "CAMERA_TRIGGER",
              "VTX_POWER", "MOTOR_ESTOP", "RC_OVERRIDE_ENABLE",
              "ARM_EMERGENCY_STOP", "CAMERA_REC_VIDEO", "UNKNOWN"}

InitInitAux ==
    /\ InitChannel
    /\ InitVehicle
    /\ ~hist.track
    /\ hist.max_ticks = MaxTicks
    /\ has_had_rc_receiver = TRUE
    /\ ignore_overrides = FALSE
    /\ ignore_receiver = FALSE
    /\ allow_switch_rev = TRUE
    /\ reversed \in BOOLEAN
    /\ gcs_overrides_enabled = TRUE
    /\ override_timeout = 3000
    /\ option \in InitFuncs
    /\ type_in = "ANGLE"
    /\ high_in = 4500

NextInit ==
    \/ Tick
    \/ \E rcin \in RcinSamples : Update(rcin)
    \/ \E cam \in BOOLEAN : ReadAux(cam)
    \/ \E cam \in BOOLEAN : InitAux(cam)

SpecInit == InitInitAux /\ [][NextInit]_vars

(***************************************************************************)
(* SpecLive: the control loop under fair scheduling: the scheduler calls   *)
(* read_aux() again and again and the clock advances while ticks are left. *)
(***************************************************************************)
InitLive ==
    /\ InitChannel
    /\ InitVehicle
    /\ ~hist.track
    /\ hist.max_ticks = MaxTicks
    /\ has_had_rc_receiver = TRUE
    /\ ignore_overrides = FALSE
    /\ ignore_receiver = FALSE
    /\ allow_switch_rev = FALSE
    /\ reversed = FALSE
    /\ gcs_overrides_enabled = TRUE
    /\ override_timeout = 3000
    /\ option \in DebounceFuncs
    /\ type_in = "ANGLE"
    /\ high_in = 4500

NextLive ==
    \/ Tick
    \/ \E rcin \in RcinSamples : Update(rcin)
    \/ \E cam \in BOOLEAN : ReadAux(cam)

SpecLive ==
    /\ InitLive
    /\ [][NextLive]_vars
    /\ WF_vars(Tick)
    /\ WF_vars(\E cam \in BOOLEAN : ReadAux(cam))

(***************************************************************************)
(* SpecMode: the flight mode channel: read_mode_switch() from the control  *)
(* loop and reset_mode_switch() at any time.                               *)
(***************************************************************************)
InitMode ==
    /\ InitChannel
    /\ InitVehicle
    /\ hist.track
    /\ hist.max_ticks = MaxDebounceTicks
    /\ has_had_rc_receiver = TRUE
    /\ ignore_overrides = FALSE
    /\ ignore_receiver = FALSE
    /\ allow_switch_rev = FALSE
    /\ reversed = FALSE
    /\ gcs_overrides_enabled = TRUE
    /\ override_timeout = 3000
    /\ option = "DO_NOTHING"
    /\ type_in = "ANGLE"
    /\ high_in = 4500

\* the band read_6pos_switch classifies, -1 when it takes no sample
sampled_band(in) == IF in_sanity_window(in) THEN band_6pos(in) ELSE -1

ReadModeSwitch ==
    LET r == read_mode_switch(switch_state, radio_in, now)
    IN  /\ switch_state' = r.ss
        /\ hist' = next_hist(hist, sampled_band(radio_in), switch_state.current_position,
                             r.ss.current_position, now, r.ret)
        /\ last_call' = [NoCall EXCEPT !.op = "read_mode_switch", !.ret = r.ret,
                                       !.ext = r.ext]
        /\ UNCHANGED << now, params, gcs_overrides_enabled, radio_in, control_in,
                        override_vars >>

ResetModeSwitch ==
    LET r == reset_mode_switch(switch_state, radio_in, now)
        q == sampled_band(radio_in)
    IN  /\ switch_state' = r.ss
        /\ hist' = [hist EXCEPT
                       !.run = IF q = -1
                               THEN [NoRun EXCEPT !.p = switch_state.current_position]
                               ELSE [NoRun EXCEPT !.pos = q, !.since = now, !.last = now,
                                                  !.p = switch_state.current_position,
                                                  !.reset = TRUE,
                                                  !.dispatches = IF r.ret THEN 1 ELSE 0],
                       !.prev_latched = FALSE]
        /\ last_call' = [NoCall EXCEPT !.op = "reset_mode_switch", !.ret = r.ret,
                                       !.ext = r.ext]
        /\ UNCHANGED << now, params, gcs_overrides_enabled, radio_in, control_in,
                        override_vars >>

NextMode ==
    \/ Tick
    \/ \E rcin \in RcinSamples : Update(rcin)
    \/ ReadModeSwitch
    \/ ResetModeSwitch

SpecMode == InitMode /\ [][NextMode]_vars

(***************************************************************************)
(* SpecOverride: set_override()/clear_override() run in a command-handling *)
(* context with no lock and no atomic: their two stores are separate steps *)
(* the build may emit in either order, and update()/has_override() of the  *)
(* control loop run between them.                                          *)
(***************************************************************************)
OverrideValues == {0, 1000, 2000}
OverrideStamps == {0, 50}
OverrideTimeouts == {-1, 0, 200}

InitOverride ==
    /\ InitChannel
    /\ InitVehicle
    /\ ~hist.track
    /\ hist.max_ticks = MaxTicks
    /\ has_had_rc_receiver \in BOOLEAN
    /\ ignore_overrides = FALSE
    /\ ignore_receiver = FALSE
    /\ allow_switch_rev = FALSE
    /\ reversed = FALSE
    /\ gcs_overrides_enabled \in BOOLEAN
    /\ override_timeout \in OverrideTimeouts
    /\ option = "DO_NOTHING"
    /\ \E m \in ControlModes : type_in = m[1] /\ high_in = m[2]

\* mutant: set_override does not test gcs_overrides_enabled
SetOverride_unguarded(v, timestamp_ms) ==
    /\ ovr.pc = "idle"
    /\ ovr.calls < MaxOverrideCalls
    /\ ovr' = [ovr EXCEPT !.pc = "set", !.v = v,
                          !.ts = IF timestamp_ms # 0 THEN timestamp_ms ELSE now,
                          !.done = {}, !.id = ovr.calls + 1, !.calls = @ + 1]
    /\ last_call' = [NoCall EXCEPT !.op = "set_override", !.arg = "entered",
                                   !.args = << v, timestamp_ms >>]
    /\ hist' = [hist EXCEPT !.expired = IF ovr'.pc = "set" THEN FALSE ELSE @]
    /\ UNCHANGED << now, params, gcs_overrides_enabled, radio_in, control_in,
                    override_value, last_override_time, switch_state >>

\* mutant: the supplied timestamp is ignored and the clock is always stored
SetOverride_clock(v, timestamp_ms) ==
    /\ ovr.pc = "idle"
    /\ ovr.calls < MaxOverrideCalls
    /\ IF ~gcs_overrides_enabled
       THEN /\ ovr' = [ovr EXCEPT !.calls = @ + 1]
            /\ last_call' = [NoCall EXCEPT !.op = "set_override", !.arg = "rejected"]
       ELSE /\ ovr' = [ovr EXCEPT !.pc = "set", !.v = v, !.ts = now,
                                  !.done = {}, !.id = ovr.calls + 1, !.calls = @ + 1]
            /\ last_call' = [NoCall EXCEPT !.op = "set_override", !.arg = "entered",
                                           !.args = << v, timestamp_ms >>]
    /\ hist' = [hist EXCEPT !.expired = IF ovr'.pc = "set" THEN FALSE ELSE @]
    /\ UNCHANGED << now, params, gcs_overrides_enabled, radio_in, control_in,
                    override_value, last_override_time, switch_state >>

\* set_override(v, timestamp_ms) is entered
SetOverride(v, timestamp_ms) ==
    /\ ovr.pc = "idle"
    /\ ovr.calls < MaxOverrideCalls
    /\ IF ~gcs_overrides_enabled
       THEN /\ ovr' = [ovr EXCEPT !.calls = @ + 1]
            /\ last_call' = [NoCall EXCEPT !.op = "set_override", !.arg = "rejected"]
       ELSE /\ ovr' = [ovr EXCEPT !.pc = "set", !.v = v,
                                  !.ts = IF timestamp_ms # 0 THEN timestamp_ms ELSE now,
                                  !.done = {}, !.id = ovr.calls + 1, !.calls = @ + 1]
            /\ last_call' = [NoCall EXCEPT !.op = "set_override", !.arg = "entered",
                                           !.args = << v, timestamp_ms >>]
    /\ hist' = [hist EXCEPT !.expired = IF ovr'.pc = "set" THEN FALSE ELSE @]
    /\ UNCHANGED << now, params, gcs_overrides_enabled, radio_in, control_in,
                    override_value, last_override_time, switch_state >>

\* mutant: clear_override resets the timestamp only
ClearOverride_keepvalue ==
    /\ ovr.pc = "idle"
    /\ ovr.calls < MaxOverrideCalls
    /\ ovr' = [ovr EXCEPT !.pc = "clear", !.v = override_value, !.ts = 0, !.done = {},
                          !.id = ovr.calls + 1, !.calls = @ + 1]
    /\ last_call' = [NoCall EXCEPT !.op = "clear_override", !.arg = "entered"]
    /\ UNCHANGED << now, params, gcs_overrides_enabled, radio_in, control_in,
                    override_value, last_override_time, switch_state, hist >>

\* clear_override() is entered
ClearOverride ==
    /\ ovr.pc = "idle"
    /\ ovr.calls < MaxOverrideCalls
    /\ ovr' = [ovr EXCEPT !.pc = "clear", !.v = 0, !.ts = 0, !.done = {},
                          !.id = ovr.calls + 1, !.calls = @ + 1]
    /\ last_call' = [NoCall EXCEPT !.op = "clear_override", !.arg = "entered"]
    /\ UNCHANGED << now, params, gcs_overrides_enabled, radio_in, control_in,
                    override_value, last_override_time, switch_state, hist >>

\* one store of the call in progress; after the second, set_override calls
\* rc().new_override_received() and the call returns
OverrideStore(f) ==
    /\ ovr.pc \in {"set", "clear"}
    /\ f \notin ovr.done
    /\ IF f = "time"
       THEN /\ last_override_time' = ovr.ts
            /\ UNCHANGED override_value
       ELSE /\ override_value' = ovr.v
            /\ UNCHANGED last_override_time
    /\ LET done == ovr.done \cup {f}
           returns == done = {"time", "value"}
       IN  /\ ovr' = [ovr EXCEPT !.done = done,
                                 !.pc = IF returns THEN "idle" ELSE @,
                                 !.value_by = IF f = "value" THEN ovr.id ELSE @,
                                 !.time_by = IF f = "time" THEN ovr.id ELSE @]
           /\ last_call' = [NoCall EXCEPT
                               !.op = IF ovr.pc = "set" THEN "set_override"
                                      ELSE "clear_override",
                               !.arg = IF returns THEN "returned" ELSE "stored",
                               !.ext = IF returns /\ ovr.pc = "set"
                                       THEN << "new_override_received" >> ELSE << >>]
    /\ UNCHANGED << now, params, gcs_overrides_enabled, radio_in, control_in,
                    switch_state, hist >>

\* has_override() called from the control loop
HasOverride ==
    /\ last_call' = [NoCall EXCEPT
                        !.op = "has_override",
                        !.ret = has_override(override_value, last_override_time,
                                             override_timeout, now),
                        !.torn = torn_read]
    /\ hist' = [hist EXCEPT
                   !.expired = @ \/ (/\ has_override_reads_time(override_value,
                                                                 override_timeout)
                                     /\ ~has_override(override_value, last_override_time,
                                                      override_timeout, now))]
    /\ UNCHANGED << now, params, gcs_overrides_enabled, radio_in, control_in,
                    override_vars, switch_state >>

NextOverride ==
    \/ Tick
    \/ \E rcin \in {1500} : Update(rcin)
    \/ HasOverride
    \/ \E v \in OverrideValues, ts \in OverrideStamps : SetOverride(v, ts)
    \/ ClearOverride
    \/ \E f \in {"time", "value"} : OverrideStore(f)

SpecOverride == InitOverride /\ [][NextOverride]_vars

(***************************************************************************)
(* SpecEnable: the RC_OVERRIDE_ENABLE handler dispatched at any position   *)
(* while set_override() calls arrive from the other context.               *)
(***************************************************************************)
InitEnable ==
    /\ InitChannel
    /\ InitVehicle
    /\ ~hist.track
    /\ hist.max_ticks = MaxTicks
    /\ has_had_rc_receiver = TRUE
    /\ ignore_overrides = FALSE
    /\ ignore_receiver = FALSE
    /\ allow_switch_rev = FALSE
    /\ reversed = FALSE
    /\ gcs_overrides_enabled = TRUE
    /\ override_timeout = 3000
    /\ option = "DO_NOTHING"
    /\ type_in = "ANGLE"
    /\ high_in = 4500

NextEnable ==
    \/ Tick
    \/ \E pos \in AuxSwitchPos : RunAuxFunction("RC_OVERRIDE_ENABLE", pos, TRUE)
    \/ \E v \in OverrideValues, ts \in OverrideStamps : SetOverride(v, ts)
    \/ \E f \in {"time", "value"} : OverrideStore(f)

SpecEnable == InitEnable /\ [][NextEnable]_vars

(***************************************************************************)
(* SpecStale: overrides arrive and expire on an auxiliary channel that may *)
(* have no receiver, while update() and read_aux() are called.             *)
(***************************************************************************)
StaleSamples == {1000, 1500}

StaleOverrides == {0, 2000}

InitStale ==
    /\ InitChannel
    /\ InitVehicle
    /\ ~hist.track
    /\ hist.max_ticks = MaxTicks
    /\ has_had_rc_receiver \in BOOLEAN
    /\ ignore_overrides = FALSE
    /\ ignore_receiver = FALSE
    /\ allow_switch_rev = FALSE
    /\ reversed = FALSE
    /\ gcs_overrides_enabled = TRUE
    /\ override_timeout = 200
    /\ option = "MOTOR_ESTOP"
    /\ type_in = "ANGLE"
    /\ high_in = 4500

NextStale ==
    \/ Tick
    \/ \E rcin \in StaleSamples : Update(rcin)
    \/ ReadAux(TRUE)
    \/ \E v \in StaleOverrides, ts \in OverrideStamps : SetOverride(v, ts)
    \/ \E f \in {"time", "value"} : OverrideStore(f)

SpecStale == InitStale /\ [][NextStale]_vars

(***************************************************************************)
(* SpecArbiter: update() under every setting of the options that suppress  *)
(* overrides and the receiver, with overrides set, cleared and timing out. *)
(***************************************************************************)
ArbiterSamples == {1300, 1700}

InitArbiter ==
    /\ InitChannel
    /\ InitVehicle
    /\ ~hist.track
    /\ hist.max_ticks = MaxTicks
    /\ has_had_rc_receiver \in BOOLEAN
    /\ ignore_overrides \in BOOLEAN
    /\ ignore_receiver \in BOOLEAN
    /\ allow_switch_rev = FALSE
    /\ reversed = FALSE
    /\ gcs_overrides_enabled = TRUE
    /\ override_timeout \in OverrideTimeouts
    /\ option = "DO_NOTHING"
    /\ \E m \in ControlModes : type_in = m[1] /\ high_in = m[2]

NextArbiter ==
    \/ Tick
    \/ \E rcin \in ArbiterSamples : Update(rcin)
    \/ \E v \in OverrideValues, ts \in OverrideStamps : SetOverride(v, ts)
    \/ ClearOverride
    \/ \E f \in {"time", "value"} : OverrideStore(f)

SpecArbiter == InitArbiter /\ [][NextArbiter]_vars

(***************************************************************************)
(* SpecClassify: the two classifiers on pulse widths at and around every   *)
(* threshold, under every setting of the reversal flags.                   *)
(***************************************************************************)
ClassifySamples == {800, 801, 1199, 1200, 1201, 1230, 1231, 1350, 1360, 1361,
                    1480, 1490, 1491, 1600, 1620, 1621, 1700, 1749, 1750,
                    1799, 1800, 1801, 2199, 2200}

ClassifyFuncs == {"VTX_POWER", "MOTOR_ESTOP"}

InitClassify ==
    /\ InitChannel
    /\ InitVehicle
    /\ ~hist.track
    /\ hist.max_ticks = MaxTicks
    /\ has_had_rc_receiver = TRUE
    /\ ignore_overrides = FALSE
    /\ ignore_receiver = FALSE
    /\ allow_switch_rev \in BOOLEAN
    /\ reversed \in BOOLEAN
    /\ gcs_overrides_enabled = TRUE
    /\ override_timeout = 3000
    /\ option \in ClassifyFuncs
    /\ type_in = "RANGE"
    /\ high_in = 1000

NextClassify ==
    \/ Tick
    \/ \E rcin \in ClassifySamples : Update(rcin)
    \/ \E cam \in {TRUE} : ReadAux(cam)

SpecClassify == InitClassify /\ [][NextClassify]_vars

(***************************************************************************)
(* SpecChannels: the channel set under every assignment of options.        *)
(***************************************************************************)
InitChannels ==
    /\ InitChannel
    /\ subsystems = NoSubsystems
    /\ channels \in [Channels -> {[option |-> o, saved |-> o] : o \in OptionIds}]
    /\ ~hist.track
    /\ hist.max_ticks = MaxTicks
    /\ has_had_rc_receiver = TRUE
    /\ ignore_overrides = FALSE
    /\ ignore_receiver = FALSE
    /\ allow_switch_rev = FALSE
    /\ reversed = FALSE
    /\ gcs_overrides_enabled = TRUE
    /\ override_timeout = 3000
    /\ option = "DO_NOTHING"
    /\ type_in = "RANGE"
    /\ high_in = 1000

channel_frame == << now, has_had_rc_receiver, ignore_overrides, ignore_receiver,
                   allow_switch_rev, gcs_overrides_enabled, override_timeout,
                   radio_min, radio_trim, radio_max, dead_zone, reversed, option,
                   type_in, high_in, radio_in, control_in, override_vars,
                   switch_state, hist, subsystems >>

FindChannelForOption(func) ==
    /\ last_call' = [NoCall EXCEPT !.op = "find_channel_for_option",
                                   !.args = << func >>,
                                   !.val = find_channel_for_option(channels, func)]
    /\ UNCHANGED << channel_frame, channels >>

DuplicateOptionsExist ==
    /\ last_call' = [NoCall EXCEPT !.op = "duplicate_options_exist",
                                   !.ret = duplicate_options_exist(channels)]
    /\ UNCHANGED << channel_frame, channels >>

ConvertOptions(old_option, new_option) ==
    /\ channels' = convert_options(channels, old_option, new_option)
    /\ last_call' = [NoCall EXCEPT !.op = "convert_options",
                                   !.args = << old_option, new_option >>]
    /\ UNCHANGED channel_frame

NextChannels ==
    \/ \E func \in OptionIds : FindChannelForOption(func)
    \/ DuplicateOptionsExist
    \/ \E old_option, new_option \in OptionIds : ConvertOptions(old_option, new_option)

SpecChannels == InitChannels /\ [][NextChannels]_vars

(***************************************************************************)
(* SpecConvert: the conversions under a grid of calibrations that holds    *)
(* radio_max below, at and above radio_min and at radio_min + dead_zone,   *)
(* and trim inside and outside the calibrated span.                        *)
(***************************************************************************)
MinVals == {1100, 1500}
MaxVals == {1100, 1130, 1500, 1900}
TrimVals == {1100, 1400, 1500}
DeadZones == {0, 30}
ConvertSamples == {1000, 1100, 1115, 1130, 1300, 1400, 1500, 1700, 1900, 2000}

InitConvert ==
    /\ now = 0
    /\ radio_min \in MinVals
    /\ radio_max \in MaxVals
    /\ radio_trim \in TrimVals
    /\ dead_zone \in DeadZones
    /\ reversed \in BOOLEAN
    /\ \E m \in ControlModes : type_in = m[1] /\ high_in = m[2]
    /\ radio_in = 0
    /\ control_in = 0
    /\ override_value = 0
    /\ last_override_time = 0
    /\ switch_state = [current_position |-> -1, debounce_position |-> -1,
                       last_edge_time_ms |-> 0, initialised |-> FALSE]
    /\ ovr = [pc |-> "idle", v |-> 0, ts |-> 0, done |-> {}, id |-> 0,
              calls |-> 0, value_by |-> 0, time_by |-> 0]
    /\ hist = [ticks |-> 0, max_ticks |-> MaxTicks, track |-> FALSE,
               prev_latched |-> FALSE, run |-> NoRun, init_pos |-> -1,
               expired |-> FALSE]
    /\ last_call = NoCall
    /\ InitVehicle
    /\ has_had_rc_receiver = TRUE
    /\ ignore_overrides = FALSE
    /\ ignore_receiver = FALSE
    /\ allow_switch_rev = FALSE
    /\ gcs_overrides_enabled = TRUE
    /\ override_timeout = 3000
    /\ option = "DO_NOTHING"

\* a const conversion was called and returned r
Converted(name, r) ==
    /\ last_call' = [NoCall EXCEPT !.op = name, !.ret = TRUE, !.val = r.val.n,
                                   !.args = << r.val.d >>, !.div = r.div]
    /\ UNCHANGED << now, params, gcs_overrides_enabled, radio_in, control_in,
                    override_vars, switch_state, hist >>

NormInput ==
    Converted("norm_input",
              norm_input(radio_in, radio_trim, radio_min, radio_max, reversed))

NormInputDz ==
    Converted("norm_input_dz",
              norm_input_dz(radio_in, dead_zone, radio_trim, radio_min, radio_max,
                            reversed))

NormInputIgnoreTrim ==
    Converted("norm_input_ignore_trim",
              norm_input_ignore_trim(radio_in, radio_min, radio_max, reversed))

PercentInput ==
    LET r == percent_input(radio_in, radio_min, radio_max, reversed)
    IN  Converted("percent_input", [val |-> [n |-> r.val, d |-> 1], div |-> r.div])

\* get_control_mid(); an integer division by zero is undefined: the call
\* either traps or returns some value
GetControlMid ==
    LET r == get_control_mid(type_in, dead_zone, radio_min, radio_max, high_in)
    IN  /\ IF 0 \in {r.div[i] : i \in DOMAIN r.div}
           THEN \E outcome \in {"trap", "value"}, v \in {0, high_in} :
                   last_call' = [NoCall EXCEPT !.op = "get_control_mid",
                                               !.ret = (outcome = "value"),
                                               !.arg = outcome,
                                               !.val = IF outcome = "value" THEN v ELSE 0,
                                               !.div = r.div]
           ELSE last_call' = [NoCall EXCEPT !.op = "get_control_mid", !.ret = TRUE,
                                            !.arg = "value", !.val = r.val,
                                            !.div = r.div]
        /\ UNCHANGED << now, params, gcs_overrides_enabled, radio_in, control_in,
                        override_vars, switch_state, hist >>

NextConvert ==
    \/ \E rcin \in ConvertSamples : Update(rcin)
    \/ NormInput
    \/ NormInputDz
    \/ NormInputIgnoreTrim
    \/ PercentInput
    \/ GetControlMid

SpecConvert == InitConvert /\ [][NextConvert]_vars

(***************************************************************************)
(* SpecHandlers: run_aux_function() called again and again, with the state *)
(* of the subsystems its handlers call into.  The other specifications     *)
(* record the calls a dispatch makes (last_call.ext) and leave that state  *)
(* alone.                                                                  *)
(***************************************************************************)
MaxEvents == 2

HandlerFuncs == {"ARMDISARM", "MOTOR_ESTOP", "ARM_EMERGENCY_STOP", "RELAY",
                 "RC_OVERRIDE_ENABLE", "CAMERA_TRIGGER", "CAM_MODE_TOGGLE",
                 "EKF_LANE_SWITCH"}

\* the handlers that ask for the camera
CameraFuncs == {"CAMERA_TRIGGER", "CAM_MODE_TOGGLE"}

\* what one call does to the subsystem it is made on
apply_call(w, c) ==
    CASE c = "arm"               -> [w EXCEPT !.armed = TRUE]
      [] c = "disarm"            -> [w EXCEPT !.armed = FALSE]
      [] c = "estop_on"          -> [w EXCEPT !.estop = TRUE]
      [] c = "estop_off"         -> [w EXCEPT !.estop = FALSE]
      [] c = "relay0_on"         -> [w EXCEPT !.relay0 = TRUE]
      [] c = "relay0_off"        -> [w EXCEPT !.relay0 = FALSE]
      [] c = "rec_on"            -> [w EXCEPT !.recording = TRUE]
      [] c = "rec_off"           -> [w EXCEPT !.recording = FALSE]
      [] c = "take_picture"      -> [w EXCEPT !.pictures = @ + 1]
      [] c = "cam_mode_toggle"   -> [w EXCEPT !.cam_mode = 1 - @]
      [] c = "check_lane_switch" -> [w EXCEPT !.lane_checks = @ + 1]
      [] OTHER                   -> w

RECURSIVE apply_calls(_, _)
apply_calls(w, ext) ==
    IF ext = << >> THEN w ELSE apply_calls(apply_call(w, Head(ext)), Tail(ext))

InitHandlers ==
    /\ InitChannel
    /\ InitVehicle
    /\ has_had_rc_receiver = TRUE
    /\ ignore_overrides = FALSE
    /\ ignore_receiver = FALSE
    /\ allow_switch_rev = FALSE
    /\ reversed = FALSE
    /\ gcs_overrides_enabled = TRUE
    /\ override_timeout = 3000
    /\ option = "DO_NOTHING"
    /\ type_in = "ANGLE"
    /\ high_in = 4500

\* run_aux_function(func, pos, ...) and what its handler's calls do; val counts
\* the invocation: 2 when the one before it had the same function, position
\* and camera
Dispatch(func, pos, cam) ==
    LET r == run_aux_function(func, pos, "SCRIPTING", 0, gcs_overrides_enabled, cam)
        w == apply_calls(subsystems, r.ext)
        again == /\ last_call.op = "run_aux_function"
                 /\ last_call.trig = r.trig
                 /\ last_call.torn = cam
    IN  /\ w.pictures <= MaxEvents
        /\ w.lane_checks <= MaxEvents
        /\ subsystems' = w
        /\ gcs_overrides_enabled' = r.goe
        /\ last_call' = [NoCall EXCEPT !.op = "run_aux_function", !.ret = r.ret,
                                       !.trig = r.trig, !.hret = r.hret,
                                       !.ext = r.ext, !.log = r.log,
                                       !.arg = func, !.torn = cam,
                                       !.val = IF again THEN 2 ELSE 1]
        /\ UNCHANGED << now, has_had_rc_receiver, ignore_overrides, ignore_receiver,
                        allow_switch_rev, override_timeout, radio_min, radio_trim,
                        radio_max, dead_zone, reversed, option, type_in, high_in,
                        channels, radio_in, control_in, override_vars,
                        switch_state, hist >>

NextHandlers ==
    \E func \in HandlerFuncs, pos \in AuxSwitchPos, cam \in BOOLEAN :
        /\ cam \/ func \in CameraFuncs
        /\ Dispatch(func, pos, cam)

SpecHandlers == InitHandlers /\ [][NextHandlers]_vars

(***************************************************************************)
(* Claims                                                                  *)
(***************************************************************************)
Contains(seq, x) == \E i \in DOMAIN seq : seq[i] = x

\* the function ids whose first switch position is latched without action
DeferSet == {"ARMDISARM", "ARMDISARM_AIRMODE", "ARM_EMERGENCY_STOP"}

\* the function ids read_aux reads with the 3-position classifier
ThreePosFuncs == AuxFuncs \ {"DO_NOTHING", "VTX_POWER"}

OutOfBand(pwm) == pwm <= RC_MIN_LIMIT_PWM \/ pwm >= RC_MAX_LIMIT_PWM

\* the position of a 3-position switch at a pulse width inside the sanity window
Band3(pwm) ==
    LET band == IF pwm < AUX_SWITCH_PWM_TRIGGER_LOW THEN LOW
                ELSE IF pwm > AUX_SWITCH_PWM_TRIGGER_HIGH THEN HIGH ELSE MIDDLE
    IN  IF reversed /\ allow_switch_rev THEN HIGH - band ELSE band

VtxCalls == {"vtx_power_0", "vtx_power_1", "vtx_power_2", "vtx_power_3",
             "vtx_power_4", "vtx_power_5"}

\* how many times the call recorded in lc invoked the function's action
ActionInvocations(lc) ==
    Len(lc.trig) + Cardinality({i \in DOMAIN lc.ext : lc.ext[i] \in VtxCalls})

\* the call recorded in lc invoked the handler of func once, with pos, from the switch
DispatchedFromSwitch(lc, func, pos) ==
    lc.trig = << [func |-> func, pos |-> pos, source |-> "RC", source_index |-> ChIn] >>

ReadAuxStep == last_call'.op = "read_aux"

FirstClassification == ~switch_state.initialised /\ switch_state'.initialised

C2_DeferredFirstRead ==
    [][ (ReadAuxStep /\ option \in DeferSet) =>
          /\ FirstClassification =>
                /\ ~last_call'.ret
                /\ ActionInvocations(last_call') = 0
                /\ switch_state'.current_position = Band3(radio_in)
          /\ (switch_state.initialised
                /\ switch_state'.current_position # switch_state.current_position) =>
                /\ last_call'.ret
                /\ DispatchedFromSwitch(last_call', option,
                                        switch_state'.current_position) ]_vars

\* C2 witness: a deferred id dispatched HIGH from the switch, after its first
\* position was latched
C2_Witness ==
    /\ option = "ARMDISARM"
    /\ last_call.op = "read_aux"
    /\ DispatchedFromSwitch(last_call, "ARMDISARM", HIGH)
    /\ switch_state.initialised

\* C3 as stated: for a function id outside the defer set, the read_aux call that
\* makes the first successful classification dispatches the handler at the
\* sampled position.
C3_ImmediateFirstAction ==
    [][ (ReadAuxStep /\ option \in ThreePosFuncs \ DeferSet /\ FirstClassification) =>
          /\ last_call'.ret
          /\ DispatchedFromSwitch(last_call', option, Band3(radio_in)) ]_vars

\* C3 amended: for a function id outside the defer set, the read_aux call that
\* makes the first successful classification dispatches nothing: the latched
\* position stays unset and the sampled position becomes the debounce candidate,
\* timed from that call.  While the position is unset, a read_aux call sampling
\* the candidate 200 ms or more after it was recorded dispatches the handler
\* with it, and a call sampling it earlier dispatches nothing.
C3_FirstActionAfterDebounce ==
    [][ (ReadAuxStep /\ option \in ThreePosFuncs \ DeferSet /\ ~OutOfBand(radio_in)) =>
          /\ FirstClassification =>
                /\ ~last_call'.ret
                /\ ActionInvocations(last_call') = 0
                /\ switch_state'.current_position = -1
                /\ switch_state'.debounce_position = Band3(radio_in)
                /\ switch_state'.last_edge_time_ms = now
          /\ (switch_state.initialised /\ switch_state.current_position = -1
                /\ switch_state.debounce_position = Band3(radio_in)) =>
                IF Sub32(now, switch_state.last_edge_time_ms) >= 200
                THEN /\ last_call'.ret
                     /\ DispatchedFromSwitch(last_call', option, Band3(radio_in))
                     /\ switch_state'.current_position = Band3(radio_in)
                ELSE /\ ~last_call'.ret
                     /\ ActionInvocations(last_call') = 0
                     /\ switch_state'.current_position = -1 ]_vars

\* C3 witness: the first dispatch of a non-deferred id, 200 ms after power-on
C3_Witness ==
    /\ option = "MOTOR_ESTOP"
    /\ last_call.op = "read_aux"
    /\ now = 2 * TickMs
    /\ DispatchedFromSwitch(last_call, "MOTOR_ESTOP", HIGH)

\* C4: when a run of equal samples q starts at time t right after a sample that
\* equalled the latched position p, the latched position is p after every sample
\* of the run taken before t+200 ms and q after every sample taken at t+200 ms
\* or later.
C4_DebounceWindow ==
    hist.run.from_latched =>
        IF Sub32(hist.run.last, hist.run.since) < 200
        THEN switch_state.current_position = hist.run.p
        ELSE switch_state.current_position = hist.run.pos

\* C4 witness: a run that started from a latched position was confirmed
C4_Witness ==
    /\ hist.run.from_latched
    /\ hist.run.p # -1
    /\ Sub32(hist.run.last, hist.run.since) >= 200
    /\ switch_state.current_position = hist.run.pos
    /\ last_call.op = "read_aux"
    /\ last_call.ret

\* C5: the control loop's has_override()/update() never reads an override value
\* and an override timestamp that were stored by different calls.
C5_ConsistentPair ==
    last_call.op \in {"update", "has_override"} => ~last_call.torn

\* C5 witness of the harm: update() took an override value stored by an earlier
\* call because a later call's timestamp made it look fresh
C5_StaleValueUsed ==
    /\ last_call.op = "update"
    /\ last_call.arg = "override"
    /\ last_call.torn

\* C6: once the channel is initialised, the latched position changes only in a
\* read_aux call, and that call invokes the function's action exactly once, with
\* the new position.
C6_LatchOnlyWithDispatch ==
    [][ (switch_state.initialised
          /\ switch_state'.current_position # switch_state.current_position) =>
          /\ ReadAuxStep
          /\ last_call'.ret
          /\ ActionInvocations(last_call') = 1
          /\ \/ DispatchedFromSwitch(last_call', option, switch_state'.current_position)
             \/ /\ option = "VTX_POWER"
                /\ last_call'.ext = << vtx_change_power(switch_state'.current_position) >>
       ]_vars

\* C6 witness: an initialised channel moved from one latched position to another
C6_Witness ==
    /\ switch_state.initialised
    /\ last_call.op = "read_aux"
    /\ option = "ARM_EMERGENCY_STOP"
    /\ switch_state.current_position = MIDDLE
    /\ DispatchedFromSwitch(last_call, option, MIDDLE)

\* C7: read_aux returns true exactly when the call invoked the function's action,
\* once, whatever the handler returned; when it returns false it invoked nothing.
C7_ReturnIffDispatch ==
    last_call.op = "read_aux" =>
        /\ last_call.ret => ActionInvocations(last_call) = 1
        /\ ~last_call.ret => (ActionInvocations(last_call) = 0 /\ last_call.ext = << >>)

\* C7 witness: read_aux returned true although the handler it invoked failed
C7_Witness ==
    /\ last_call.op = "read_aux"
    /\ last_call.ret
    /\ last_call.hret = << FALSE >>

\* C8: with radio_in outside the sanity window, read_3pos_switch and
\* read_6pos_switch report no reading, and a read_aux call returns false,
\* invokes nothing and leaves current_position, debounce_position, last_edge_time
\* and initialised as they were.
C8_OutOfBandRejected ==
    [][ OutOfBand(radio_in) =>
          /\ ~read_3pos_switch(radio_in, reversed, allow_switch_rev).ret
          /\ ~read_6pos_switch(switch_state, radio_in, now).ret
          /\ read_6pos_switch(switch_state, radio_in, now).ss = switch_state
          /\ ReadAuxStep =>
                /\ ~last_call'.ret
                /\ ActionInvocations(last_call') = 0
                /\ last_call'.ext = << >>
                /\ switch_state' = switch_state ]_vars

\* C8 witness: an initialised channel read at the upper limit of the window
C8_Witness ==
    /\ last_call.op = "read_aux"
    /\ radio_in = RC_MAX_LIMIT_PWM
    /\ option \in ThreePosFuncs
    /\ switch_state.initialised
    /\ switch_state.debounce_position # switch_state.current_position

\* C9: every call that invokes a function's action writes one record carrying
\* the function id, the position, the trigger source, the source index and the
\* handler's result.
C9_EveryDispatchLogged ==
    ActionInvocations(last_call) >= 1 =>
        /\ Len(last_call.log) = 1
        /\ Len(last_call.trig) = 1
        /\ last_call.log[1] = [function |-> last_call.trig[1].func,
                                pos      |-> last_call.trig[1].pos,
                                source   |-> last_call.trig[1].source,
                                index    |-> last_call.trig[1].source_index,
                                result   |-> last_call.hret[1]]

\* the function ids of the model that do_aux_function has no case for
NoHandlerFuncs == {"UNKNOWN"}

\* C10: dispatching a function id without handler returns false, writes a record
\* of the failure and changes nothing of the channel, so that repeating it gives
\* the same.
C10_UnknownIdFails ==
    [][ (last_call'.op = "run_aux_function" /\ last_call'.arg \in NoHandlerFuncs) =>
          /\ ~last_call'.ret
          /\ last_call'.ext = << >>
          /\ Len(last_call'.log) = 1 /\ ~last_call'.log[1].result
          /\ UNCHANGED << radio_in, control_in, override_value, last_override_time,
                          option, switch_state, gcs_overrides_enabled >> ]_vars

\* C10 witness: the failed dispatch on a channel that has latched a position
C10_Witness ==
    /\ last_call.op = "run_aux_function"
    /\ last_call.arg = "UNKNOWN"
    /\ ~last_call.ret
    /\ switch_state.initialised
    /\ switch_state.current_position = HIGH

\* the conversion update() applies to a raw value
ControlInOf(in) ==
    IF type_in = "RANGE"
    THEN pwm_to_range_dz(in, dead_zone, radio_min, radio_max, reversed, high_in)
    ELSE pwm_to_angle_dz_trim(in, dead_zone, radio_trim, radio_min, radio_max,
                              reversed, high_in)

\* an override is present, has not timed out and is not globally ignored
OverrideUsable ==
    /\ override_value # 0
    /\ \/ override_timeout < 0
       \/ override_timeout > 0 /\ Sub32(now, last_override_time) < override_timeout
    /\ ~ignore_overrides

ReceiverUsable == has_had_rc_receiver /\ ~ignore_receiver

\* C11: update() takes the override value if an override is usable, else the
\* receiver's sample if the receiver is usable, else reports no update; on
\* success radio_in is the value taken and control_in its RANGE or ANGLE
\* conversion.
C11_UpdatePriority ==
    last_call.op = "update" =>
        IF OverrideUsable
        THEN /\ last_call.ret
             /\ radio_in = override_value
             /\ control_in = ControlInOf(override_value)
        ELSE IF ReceiverUsable
        THEN /\ last_call.ret
             /\ radio_in = last_call.val
             /\ last_call.val \in ArbiterSamples
             /\ control_in = ControlInOf(last_call.val)
        ELSE ~last_call.ret

\* C11 witness: an override was taken although the receiver was usable
C11_Witness ==
    /\ last_call.op = "update"
    /\ last_call.ret
    /\ ReceiverUsable
    /\ radio_in = 2000
    /\ type_in = "ANGLE"
    /\ control_in = 4500

\* C12: with no usable override and no usable receiver, update() returns false
\* and leaves radio_in and control_in as they were.
C12_SignalAbsence ==
    [][ (last_call'.op = "update" /\ ~OverrideUsable /\ ~ReceiverUsable) =>
          /\ ~last_call'.ret
          /\ UNCHANGED << radio_in, control_in >> ]_vars

\* C12 witness: update() failed after an earlier update had taken an override
\* that has timed out since
C12_Witness ==
    /\ last_call.op = "update"
    /\ ~last_call.ret
    /\ radio_in = 2000
    /\ control_in = 1000
    /\ override_value = 2000
    /\ ~has_had_rc_receiver

\* C13: while overrides are globally disabled, set_override stores nothing,
\* returns without notifying the channel set, and has_override() answers as
\* before.
C13_SetOverrideDisabled ==
    [][ (last_call'.op = "set_override" /\ ~gcs_overrides_enabled) =>
          /\ last_call'.arg = "rejected"
          /\ ovr'.pc = "idle"
          /\ UNCHANGED << override_value, last_override_time >>
          /\ ~Contains(last_call'.ext, "new_override_received")
          /\ has_override(override_value', last_override_time', override_timeout, now')
                = has_override(override_value, last_override_time, override_timeout, now)
       ]_vars

\* C13 witness: a set_override call was rejected
C13_Witness ==
    /\ last_call.op = "set_override"
    /\ last_call.arg = "rejected"
    /\ ~gcs_overrides_enabled
    /\ ovr.calls = 1
    /\ override_value = 0

\* C14: has_override() is false with no override value, else true with
\* timeouts disabled, else false with a timeout of 0, else true exactly while
\* less than the timeout has elapsed since last_override_time.
C14_HasOverride ==
    last_call.op = "has_override" =>
        last_call.ret =
            CASE override_value = 0   -> FALSE
              [] override_timeout < 0 -> TRUE
              [] override_timeout = 0 -> FALSE
              [] OTHER -> Sub32(now, last_override_time) < override_timeout

\* C14 witness: has_override() is false when exactly the timeout has elapsed
C14_Witness ==
    /\ last_call.op = "has_override"
    /\ ~last_call.ret
    /\ override_value # 0
    /\ override_timeout > 0
    /\ Sub32(now, last_override_time) = override_timeout

\* an override value is stored and its positive timeout has elapsed since the
\* stored timestamp
TimedOut ==
    /\ override_value # 0
    /\ override_timeout > 0
    /\ last_override_time <= now
    /\ now - last_override_time >= override_timeout

OverrideReads == {"has_override", "update"}

\* C15 as stated: a read that finds the override timed out leaves override_value
\* and last_override_time at 0, as clear_override() does.
C15_TimeoutClears ==
    [][ (last_call'.op \in OverrideReads /\ TimedOut) =>
          (override_value' = 0 /\ last_override_time' = 0) ]_vars

\* C15 amended: a read that finds the override timed out reports no override
\* (has_override() false, update() not taking the override) and leaves
\* override_value and last_override_time as set_override stored them.
C15_TimeoutKeepsState ==
    [][ (last_call'.op \in OverrideReads /\ TimedOut) =>
          /\ UNCHANGED << override_value, last_override_time >>
          /\ last_call'.op = "has_override" => ~last_call'.ret
          /\ last_call'.op = "update" => last_call'.arg # "override" ]_vars

\* C15 witness: update() took the receiver's sample past a timed-out override
\* whose value is still stored
C15_Witness ==
    /\ last_call.op = "update"
    /\ last_call.arg = "receiver"
    /\ TimedOut
    /\ override_value = 2000
    /\ radio_in = 1500

\* C16: clear_override() leaves override_value and last_override_time at 0;
\* override_value leaves 0 only by the value store of an accepted set_override
\* with a non-zero value; and while it is 0, has_override() is false at every
\* timeout setting and update() takes no override.
C16_ClearOverride ==
    /\ [][ (last_call'.op = "clear_override" /\ last_call'.arg = "returned") =>
             (override_value' = 0 /\ last_override_time' = 0) ]_vars
    /\ [][ (override_value = 0 /\ override_value' # 0) =>
             /\ last_call'.op = "set_override"
             /\ gcs_overrides_enabled
             /\ ovr.pc = "set" /\ ovr.v # 0 ]_vars
    /\ [](override_value = 0 =>
             /\ \A t \in OverrideTimeouts :
                    ~has_override(override_value, last_override_time, t, now)
             /\ last_call.op = "has_override" => ~last_call.ret
             /\ last_call.op = "update" => last_call.arg # "override")

\* C16 witness: clear_override() returned on a channel whose update() had
\* taken an override
C16_Witness ==
    /\ last_call.op = "clear_override"
    /\ last_call.arg = "returned"
    /\ radio_in = 2000
    /\ override_value = 0
    /\ last_override_time = 0

\* C17: with function id DO_NOTHING, read_aux returns false at every radio_in,
\* invokes nothing and leaves the switch debounce state as it was.
C17_DoNothing ==
    [][ (ReadAuxStep /\ option = "DO_NOTHING") =>
          /\ ~last_call'.ret
          /\ ActionInvocations(last_call') = 0
          /\ last_call'.ext = << >>
          /\ last_call'.log = << >>
          /\ UNCHANGED switch_state ]_vars

\* C17 witness: read_aux on a DO_NOTHING channel with a pulse width inside the
\* sanity window, 200 ms after power-on
C17_Witness ==
    /\ last_call.op = "read_aux"
    /\ option = "DO_NOTHING"
    /\ radio_in = 2000
    /\ now >= 200
    /\ ~switch_state.initialised

\* the lower limits of the 6-position bands 1..5
Thresholds6 == << 1231, 1361, 1491, 1621, 1750 >>

\* the 6-position band of a pulse width: the number of limits it has reached
Expected6(pwm) == Cardinality({i \in DOMAIN Thresholds6 : pwm >= Thresholds6[i]})

\* C18: a read_aux call on VTX_POWER changes the power exactly when the latched
\* 6-position band changes, with the new band, which it does whenever the same
\* band has been sampled for 200 ms; it never builds a trigger for the dispatch
\* table and never marks the channel initialised as the first 3-position read does.
C18_VtxSixBands ==
    [][ (ReadAuxStep /\ option = "VTX_POWER") =>
          /\ last_call'.trig = << >>
          /\ ~switch_state'.initialised
          /\ last_call'.ret <=>
                switch_state'.current_position # switch_state.current_position
          /\ last_call'.ret =>
                /\ ~OutOfBand(radio_in)
                /\ switch_state'.current_position = Expected6(radio_in)
                /\ last_call'.ext = << vtx_change_power(Expected6(radio_in)) >>
          /\ ~last_call'.ret => last_call'.ext = << >>
          /\ ( /\ ~OutOfBand(radio_in)
               /\ switch_state.debounce_position = Expected6(radio_in)
               /\ switch_state.current_position # Expected6(radio_in)
               /\ Sub32(now, switch_state.last_edge_time_ms) >= 200 ) => last_call'.ret
       ]_vars

\* C18 witness: the power changed to band 3 from another latched band
C18_Witness ==
    /\ last_call.op = "read_aux"
    /\ option = "VTX_POWER"
    /\ last_call.ext = << "vtx_power_3" >>
    /\ switch_state.current_position = 3
    /\ hist.run.p \in {0, 5}

\* C19: inside the sanity window the 6-position classifier gives 0 below 1231,
\* 1 below 1361, 2 below 1491, 3 below 1621, 4 below 1750 and 5 from 1750, for
\* every pulse width and whatever the debounce state and the time.
C19_SixBands ==
    /\ \A pwm \in ClassifySamples :
          ~OutOfBand(pwm) =>
              read_6pos_switch(switch_state, pwm, now).position = Expected6(pwm)
    /\ read_6pos_switch(switch_state, 1200, now).position = 0
    /\ read_6pos_switch(switch_state, 1350, now).position = 1
    /\ read_6pos_switch(switch_state, 1480, now).position = 2
    /\ read_6pos_switch(switch_state, 1600, now).position = 3
    /\ read_6pos_switch(switch_state, 1700, now).position = 4
    /\ read_6pos_switch(switch_state, 1800, now).position = 5
    /\ (last_call.op = "read_aux" /\ option = "VTX_POWER" /\ ~OutOfBand(radio_in)) =>
          switch_state.debounce_position = Expected6(radio_in)

\* C19 witness: a pulse width at a band limit was classified into the upper band
C19_Witness ==
    /\ last_call.op = "read_aux"
    /\ option = "VTX_POWER"
    /\ radio_in = 1621
    /\ switch_state.debounce_position = 4
    /\ switch_state.current_position = 3

\* the 3-position classification the claim states for pulse width pwm
Expected3(pwm) ==
    LET swapped == reversed /\ allow_switch_rev
    IN  IF pwm < AUX_SWITCH_PWM_TRIGGER_LOW
        THEN (IF swapped THEN HIGH ELSE LOW)
        ELSE IF pwm > AUX_SWITCH_PWM_TRIGGER_HIGH
        THEN (IF swapped THEN LOW ELSE HIGH)
        ELSE MIDDLE

\* C20: inside the sanity window the 3-position classifier gives LOW below the
\* low threshold, HIGH above the high threshold and MIDDLE from one threshold
\* to the other; LOW and HIGH are swapped exactly when the channel is reversed
\* and switch reversal is permitted, and MIDDLE never is.
C20_ThreeBands ==
    /\ \A pwm \in ClassifySamples :
          ~OutOfBand(pwm) =>
              /\ read_3pos_switch(pwm, reversed, allow_switch_rev).ret
              /\ read_3pos_switch(pwm, reversed, allow_switch_rev).pos = Expected3(pwm)
    /\ (last_call.op = "read_aux" /\ option = "MOTOR_ESTOP" /\ ~OutOfBand(radio_in)) =>
          switch_state.debounce_position = Expected3(radio_in)

\* C20 witness: a reversed switch below the low threshold was read as HIGH
C20_Witness ==
    /\ last_call.op = "read_aux"
    /\ option = "MOTOR_ESTOP"
    /\ reversed /\ allow_switch_rev
    /\ radio_in = 1199
    /\ switch_state.current_position = HIGH
    /\ Contains(last_call.ext, "estop_on")

\* a function id the bitmask of duplicate_options_exist has a bit for
InBitmask(o) == o >= 0 /\ o < AUX_FUNCTION_MAX

\* C21: duplicate_options_exist() is true exactly when two channels have the
\* same option, other than DO_NOTHING and inside the bitmask; it changes no
\* channel.
C21_DuplicateOptions ==
    /\ [](last_call.op = "duplicate_options_exist" =>
            (last_call.ret <=>
                \E i, j \in Channels :
                    /\ i # j
                    /\ channels[i].option = channels[j].option
                    /\ channels[i].option # DO_NOTHING_ID
                    /\ InBitmask(channels[i].option)))
    /\ [][last_call'.op = "duplicate_options_exist" => UNCHANGED channels]_vars

\* C21 witness: no duplicate is reported although two channels share an id
\* past the bitmask
C21_Witness ==
    /\ last_call.op = "duplicate_options_exist"
    /\ ~last_call.ret
    /\ channels[1].option = AUX_FUNCTION_MAX
    /\ channels[2].option = AUX_FUNCTION_MAX
    /\ channels[3].option = 9

\* C22: convert_options(old, new) sets to new, in memory and saved, the option
\* of the channels that had old and of no other; when old differs from new no
\* channel has old afterwards and find_channel_for_option(old) finds none.
C22_ConvertOptions ==
    [][ last_call'.op = "convert_options" =>
          LET old_option == last_call'.args[1]
              new_option == last_call'.args[2]
          IN  /\ \A i \in Channels :
                    IF channels[i].option = old_option
                    THEN channels'[i] = [option |-> new_option, saved |-> new_option]
                    ELSE channels'[i] = channels[i]
              /\ old_option # new_option =>
                    /\ \A i \in Channels : channels'[i].option # old_option
                    /\ find_channel_for_option(channels', old_option) = 0 ]_vars

\* C22 witness: two channels were converted and the third kept its option
C22_Witness ==
    /\ last_call.op = "convert_options"
    /\ last_call.args = << 9, 153 >>
    /\ channels[1] = [option |-> 153, saved |-> 153]
    /\ channels[2] = [option |-> 0, saved |-> 0]
    /\ channels[3] = [option |-> 153, saved |-> 153]

\* C23: find_channel_for_option(id) gives the lowest channel whose option is
\* id, and nothing exactly when no channel has it.
C23_FindChannel ==
    last_call.op = "find_channel_for_option" =>
        LET func == last_call.args[1]
            having == {i \in Channels : channels[i].option = func}
        IN  /\ last_call.val = 0 <=> having = {}
            /\ having # {} =>
                  /\ last_call.val \in having
                  /\ \A i \in having : last_call.val <= i

\* C23 witness: the second of three channels is found before the third
C23_Witness ==
    /\ last_call.op = "find_channel_for_option"
    /\ last_call.args = << 153 >>
    /\ last_call.val = 2
    /\ channels[1].option = 9
    /\ channels[3].option = 153

Conversions == {"update", "norm_input", "norm_input_dz", "norm_input_ignore_trim",
                "percent_input", "get_control_mid"}

\* C24: no conversion of the input normalizer divides by zero, whatever the
\* calibration and the input.
C24_NoZeroDivision ==
    last_call.op \in Conversions =>
        \A i \in DOMAIN last_call.div : last_call.div[i] # 0

\* C25: with radio_max <= radio_min the RANGE and ANGLE conversions, norm_input,
\* norm_input_dz and norm_input_ignore_trim return 0.
C25_NeutralOnBadCalibration ==
    radio_max <= radio_min =>
        /\ (last_call.op = "update" /\ last_call.ret) => control_in = 0
        /\ last_call.op \in {"norm_input", "norm_input_dz", "norm_input_ignore_trim"} =>
              last_call.val = 0

\* an update() that converted a receiver pulse width
ConvertedInput(type) ==
    last_call.op = "update" /\ last_call.ret /\ type_in = type

\* C26: with radio_min <= radio_max, the RANGE conversion of every pulse width
\* in [radio_min, radio_max] lies in [0, high_in], and it is non-decreasing in
\* the pulse width when the channel is not reversed, non-increasing when it is.
C26_RangeBoundedMonotonic ==
    radio_min <= radio_max =>
        /\ \A p \in radio_min..radio_max :
              LET r == pwm_to_range_dz(p, dead_zone, radio_min, radio_max, reversed, high_in)
              IN  /\ 0 <= r /\ r <= high_in
                  /\ p < radio_max =>
                        LET r1 == pwm_to_range_dz(p + 1, dead_zone, radio_min, radio_max,
                                                  reversed, high_in)
                        IN  IF reversed THEN r1 <= r ELSE r <= r1
        /\ (ConvertedInput("RANGE") /\ radio_min <= radio_in /\ radio_in <= radio_max) =>
              0 <= control_in /\ control_in <= high_in

C26_Witness ==
    /\ ConvertedInput("RANGE") /\ reversed
    /\ radio_min = 1100 /\ radio_max = 1900 /\ dead_zone = 30
    /\ radio_in = 1300
    /\ 0 < control_in /\ control_in < high_in
    /\ control_in > pwm_to_range_dz(1301, dead_zone, radio_min, radio_max, reversed, high_in)

\* the reference formula of the RANGE conversion: the distance of the clamped
\* input from the end of the span the channel counts from, less the dead zone,
\* scaled to high_in
RangeReference(in) ==
    LET c    == IF in < radio_min THEN radio_min
                ELSE IF in > radio_max THEN radio_max ELSE in
        dist == IF reversed THEN radio_max - c ELSE c - radio_min
        span == radio_max - radio_min
    IN  IF dist > dead_zone
        THEN TruncDiv(high_in * (dist - dead_zone), span - dead_zone)
        ELSE 0

\* C27: pwm_to_range_dz equals the reference formula (clamp, mirror when
\* reversed, scale above radio_min + dead_zone, 0 otherwise); with dead zone 0,
\* span 1100..1900 and high_in 1000 it maps 1100, 1500, 1900 to 0, 500, 1000.
C27_RangeReference ==
    /\ \A in \in ConvertSamples \cup {0} :
          pwm_to_range_dz(in, dead_zone, radio_min, radio_max, reversed, high_in)
              = RangeReference(in)
    /\ ConvertedInput("RANGE") => control_in = RangeReference(radio_in)
    /\ pwm_to_range_dz(1100, 0, 1100, 1900, FALSE, 1000) = 0
    /\ pwm_to_range_dz(1500, 0, 1100, 1900, FALSE, 1000) = 500
    /\ pwm_to_range_dz(1900, 0, 1100, 1900, FALSE, 1000) = 1000

C27_Witness ==
    /\ ConvertedInput("RANGE") /\ ~reversed
    /\ radio_min = 1100 /\ radio_max = 1900 /\ dead_zone = 0 /\ high_in = 1000
    /\ radio_in = 1500 /\ control_in = 500

\* C28: with radio_min <= radio_max the ANGLE conversion is 0 when the clamped
\* input is inside [trim - dead_zone, trim + dead_zone], in (0, high_in] above
\* the band and in [-high_in, 0) below it when not reversed, and the reversed
\* result is the negation of the not reversed one.
C28_AngleBand ==
    radio_min <= radio_max =>
        /\ \A in \in ConvertSamples \cup {0} \cup ((radio_min - 1)..(radio_max + 1)) :
              LET c == constrain_int16(in, radio_min, radio_max)
                  a == pwm_to_angle_dz_trim(in, dead_zone, radio_trim, radio_min,
                                            radio_max, FALSE, high_in)
                  b == pwm_to_angle_dz_trim(in, dead_zone, radio_trim, radio_min,
                                            radio_max, TRUE, high_in)
              IN  /\ (radio_trim - dead_zone <= c /\ c <= radio_trim + dead_zone) => a = 0
                  /\ c > radio_trim + dead_zone => (0 < a /\ a <= high_in)
                  /\ c < radio_trim - dead_zone => (-high_in <= a /\ a < 0)
                  /\ b = -a
        /\ ConvertedInput("ANGLE") =>
              LET c == constrain_int16(radio_in, radio_min, radio_max)
                  s == IF reversed THEN -1 ELSE 1
              IN  /\ (radio_trim - dead_zone <= c /\ c <= radio_trim + dead_zone)
                        => control_in = 0
                  /\ c > radio_trim + dead_zone
                        => (0 < s * control_in /\ s * control_in <= high_in)
                  /\ c < radio_trim - dead_zone
                        => (-high_in <= s * control_in /\ s * control_in < 0)

C28_Witness ==
    /\ ConvertedInput("ANGLE") /\ reversed
    /\ radio_min = 1100 /\ radio_max = 1900 /\ radio_trim = 1500 /\ dead_zone = 30
    /\ radio_in = 1300 /\ control_in > 0 /\ control_in < high_in

\* a step that invokes a handler a second time with the same position
SecondInvocation ==
    last_call'.op = "run_aux_function" /\ last_call'.val = 2

\* the handler invoked issues a one-shot command at this invocation
IssuesCommand ==
    \/ last_call'.arg \in {"CAMERA_TRIGGER", "CAM_MODE_TOGGLE"}
          /\ last_call'.trig[1].pos = HIGH /\ last_call'.torn
    \/ last_call'.arg = "EKF_LANE_SWITCH"

\* C29: every handler is idempotent: invoking it a second time with the same
\* position leaves the external subsystems as the first invocation left them.
C29_Idempotent ==
    [][SecondInvocation =>
          /\ subsystems' = subsystems
          /\ gcs_overrides_enabled' = gcs_overrides_enabled]_vars

\* C29 as amended: a second invocation with the same position changes nothing,
\* except for CAMERA_TRIGGER and CAM_MODE_TOGGLE at HIGH with a camera and
\* EKF_LANE_SWITCH at any position, which issue their command again.
C29_SettersIdempotent ==
    [][SecondInvocation =>
          IF IssuesCommand
          THEN subsystems' # subsystems
          ELSE /\ subsystems' = subsystems
               /\ gcs_overrides_enabled' = gcs_overrides_enabled]_vars

C29_Witness ==
    /\ last_call.op = "run_aux_function" /\ last_call.val = 2
    /\ last_call.arg = "CAMERA_TRIGGER" /\ last_call.trig[1].pos = HIGH
    /\ subsystems.pictures = 2
    /\ subsystems.armed /\ subsystems.relay0 /\ subsystems.estop

\* the valid sample a read_aux step classifies, -1 when it takes none
Sampled == sampled_position(option, radio_in, reversed, allow_switch_rev)

\* C30: a sample equal to the latched position cancels an edge in progress:
\* debounce_position is reset to current_position and no change is reported; a
\* following sample of q then records q with the time of that sample, and a
\* candidate's window is measured from the first sample of its run, so what was
\* seen of q before the cancellation does not count.
C30_CancelEdge ==
    /\ [][(ReadAuxStep /\ switch_state.initialised /\ Sampled # -1
             /\ Sampled = switch_state.current_position) =>
              /\ switch_state'.debounce_position = switch_state.current_position
              /\ switch_state'.current_position = switch_state.current_position
              /\ ~last_call'.ret]_vars
    /\ [][(ReadAuxStep /\ switch_state.initialised /\ Sampled # -1
             /\ Sampled # switch_state.current_position
             /\ switch_state.debounce_position = switch_state.current_position) =>
              /\ switch_state'.debounce_position = Sampled
              /\ switch_state'.last_edge_time_ms = now
              /\ switch_state'.current_position = switch_state.current_position
              /\ ~last_call'.ret]_vars
    /\ [](hist.run.cancelled /\ hist.run.pos # hist.run.p =>
              /\ switch_state.last_edge_time_ms = hist.run.since
              /\ switch_state.current_position = hist.run.pos
                    => Sub32(hist.run.last, hist.run.since) >= SWITCH_DEBOUNCE_TIME_MS)

\* C30 witness: q was seen, cancelled by a sample of the latched position, seen
\* again and confirmed 200 ms after it was seen again
C30_Witness ==
    /\ hist.run.cancelled
    /\ hist.run.pos # hist.run.p
    /\ hist.run.p # -1
    /\ switch_state.current_position = hist.run.pos
    /\ switch_state.last_edge_time_ms = hist.run.since
    /\ hist.run.since >= 2 * TickMs
    /\ last_call.op = "read_aux"
    /\ last_call.ret

\* a step of set_override: its entry, one of its stores, its return
SetOverrideStep(what) ==
    last_call'.op = "set_override" /\ last_call'.arg = what

\* C31: with overrides enabled set_override(v, ts) stores v and ts, or the
\* current time when ts is 0, and tells the channel set once per call that an
\* override arrived; a stored value of 0 makes has_override() false.
C31_SetOverrideStores ==
    /\ [][SetOverrideStep("entered") =>
              /\ gcs_overrides_enabled
              /\ ovr'.v = last_call'.args[1]
              /\ ovr'.ts = IF last_call'.args[2] # 0 THEN last_call'.args[2] ELSE now]_vars
    /\ [][SetOverrideStep("stored") => last_call'.ext = << >>]_vars
    /\ [][SetOverrideStep("returned") =>
              /\ ovr.pc = "set"
              /\ override_value' = ovr.v
              /\ last_override_time' = ovr.ts
              /\ last_call'.ext = << "new_override_received" >>]_vars
    /\ [](override_value = 0 =>
              /\ ~has_override(override_value, last_override_time, override_timeout, now)
              /\ last_call.op = "has_override" => ~last_call.ret)

\* C31 witness: set_override(0, 0) stored the clock's time and has_override()
\* answered false with timeouts disabled
C31_Witness ==
    /\ last_call.op = "has_override" /\ ~last_call.ret
    /\ ovr.pc = "idle" /\ ovr.value_by = ovr.id /\ ovr.time_by = ovr.id /\ ovr.id > 0
    /\ override_value = 0
    /\ last_override_time = TickMs
    /\ override_timeout = -1

\* C32: for a function id outside the defer set whose switch stays at one valid
\* position from the first valid read on, read_aux returns true exactly once:
\* in no call before 200 ms have passed since the first valid read, in the first
\* call after that, with that position, and in no later call; whether or not
\* init_aux invoked the handler.
C32_HeldSwitchOnce ==
    (hist.run.first /\ option \notin DeferSet) =>
        /\ hist.run.dispatches =
              IF Sub32(hist.run.last, hist.run.since) >= SWITCH_DEBOUNCE_TIME_MS
              THEN 1 ELSE 0
        /\ hist.run.dispatches = 1 => switch_state.current_position = hist.run.pos
        /\ (last_call.op = "read_aux" /\ last_call.ret /\ option \in ThreePosFuncs) =>
              DispatchedFromSwitch(last_call, option, hist.run.pos)

\* C32 witness: init_aux ran the handler at HIGH, read_aux ran it once more at
\* HIGH and a later read_aux returned false
C32_Witness ==
    /\ hist.run.first /\ option = "MOTOR_ESTOP"
    /\ hist.run.pos = HIGH /\ hist.init_pos = HIGH
    /\ hist.run.dispatches = 1
    /\ Sub32(hist.run.last, hist.run.since) > SWITCH_DEBOUNCE_TIME_MS
    /\ last_call.op = "read_aux" /\ ~last_call.ret
    /\ Sampled = HIGH

\* C33: whenever read_aux dispatches for a channel whose function id is then in
\* the defer set, the channel had latched a valid position different from the
\* dispatched one, whatever the interleaving of update, read_aux and
\* convert_options.
C33_DeferredNeverFirst ==
    [][(ReadAuxStep /\ last_call'.trig # << >> /\ option \in DeferSet) =>
          /\ switch_state.current_position \in AuxSwitchPos
          /\ switch_state.current_position # last_call'.trig[1].pos]_vars

\* the ids init_aux_function lists as requiring explicit initialization, and
\* those it lists as not to be initialised
ExplicitInit == {"MOTOR_ESTOP", "RC_OVERRIDE_ENABLE", "ARM_EMERGENCY_STOP",
                 "CAMERA_REC_VIDEO"}

NotInitialised == {"ARMDISARM", "ARMDISARM_AIRMODE", "CAMERA_TRIGGER", "RELAY",
                   "VTX_POWER"}

\* C34: init_aux invokes a handler, with source INIT and the channel's index,
\* only for the ids requiring explicit initialization and for none of the ids
\* not to be initialised, whatever the switch position; without a reading
\* the position passed is LOW; it never changes the switch debounce state.
C34_InitAux ==
    [][last_call'.op = "init_aux" =>
          /\ UNCHANGED switch_state
          /\ IF option \in ExplicitInit
             THEN last_call'.trig =
                     << [func |-> option,
                         pos |-> IF OutOfBand(radio_in) THEN LOW ELSE Band3(radio_in),
                         source |-> "INIT", source_index |-> ChIn] >>
             ELSE /\ last_call'.trig = << >>
                  /\ last_call'.ext = << >>
                  /\ last_call'.log = << >>]_vars

\* C34 witness: with the switch latched HIGH and then no reading, init_aux
\* invoked the handler at LOW
C34_Witness ==
    /\ last_call.op = "init_aux"
    /\ option = "MOTOR_ESTOP"
    /\ OutOfBand(radio_in)
    /\ last_call.trig # << >> /\ last_call.trig[1].pos = LOW
    /\ switch_state.current_position = HIGH

\* C35: read_aux confirms a position q only in a call whose sample is q, when
\* the valid sample before it was q too and 200 ms or more have passed since the
\* sample that recorded q as candidate, the first of the run of samples q; a
\* call with no reading leaves the debounce state alone and confirms nothing.
C35_ConfirmOnlyAfterRun ==
    /\ [][(ReadAuxStep /\ last_call'.ret) =>
              /\ Sampled # -1
              /\ switch_state'.current_position = Sampled
              /\ switch_state.current_position # Sampled
              /\ hist.run.pos = Sampled
              /\ switch_state.debounce_position = Sampled
              /\ switch_state.last_edge_time_ms = hist.run.since
              /\ Sub32(now, hist.run.since) >= SWITCH_DEBOUNCE_TIME_MS]_vars
    /\ [][(ReadAuxStep /\ Sampled = -1) =>
              /\ UNCHANGED switch_state
              /\ ~last_call'.ret]_vars

\* C35 witness: q was confirmed 200 ms after it was recorded, with a read that
\* gave no reading in between
C35_Witness ==
    /\ last_call.op = "read_aux" /\ last_call.ret
    /\ hist.run.gap
    /\ hist.run.pos = switch_state.current_position
    /\ hist.run.last = hist.run.since + SWITCH_DEBOUNCE_TIME_MS

\* the pulse widths that give a reading
ValidSamples == {x \in RcinSamples : ~OutOfBand(x)}

\* the position read_aux classifies pulse width c to
PositionOf(c) == IF option = "VTX_POWER" THEN Expected6(c) ELSE Band3(c)

\* read_aux has just read the input and the clock has 200 ms or more to go
ReadInTime ==
    /\ last_call.op = "read_aux"
    /\ hist.ticks * TickMs + SWITCH_DEBOUNCE_TIME_MS <= hist.max_ticks * TickMs

\* the handler of the channel's function was invoked with the position of c
InvokedWith(c) ==
    /\ last_call.op = "read_aux"
    /\ last_call.ret
    /\ IF option = "VTX_POWER"
       THEN last_call.ext = << vtx_change_power(PositionOf(c)) >>
       ELSE DispatchedFromSwitch(last_call, option, PositionOf(c))

\* C36: if from some point on every sample is valid and classifies to one
\* position q while the channel keeps being read and the clock advances, then
\* eventually current_position = q for good, and if a position other than q was
\* latched (or none, for an id outside the defer set) the handler is
\* eventually invoked with q.
C36_DebounceLive ==
    \A c \in ValidSamples :
        /\ []((ReadInTime /\ [](radio_in = c))
               => <>[](switch_state.current_position = PositionOf(c)))
        /\ []((ReadInTime /\ [](radio_in = c)
                /\ switch_state.current_position # PositionOf(c)
                /\ (switch_state.current_position # -1 \/ option \notin DeferSet))
               => <>InvokedWith(c))

\* C36 witness: the handler was invoked with HIGH after LOW had been latched
C36_Witness ==
    /\ InvokedWith(2000)
    /\ option = "ARMDISARM"
    /\ switch_state.current_position = HIGH
    /\ now >= 2 * TickMs

\* C37: reset_mode_switch leaves current_position at -1 and debounce_position
\* at -1 or, with a reading, at the band it read, recorded at the time of the
\* reset, and reports no mode change; if the pulse width then stays in one band
\* b, mode_switch_changed(b) is reported exactly once, at the first
\* read_mode_switch 200 ms or more after the reset, also when b was the
\* position latched before the reset.
C37_ResetModeSwitch ==
    /\ [][last_call'.op = "reset_mode_switch" =>
              /\ switch_state'.current_position = -1
              /\ IF OutOfBand(radio_in)
                 THEN switch_state'.debounce_position = -1
                 ELSE /\ switch_state'.debounce_position = Expected6(radio_in)
                      /\ switch_state'.last_edge_time_ms = now
              /\ ~last_call'.ret
              /\ last_call'.ext = << >>]_vars
    /\ [](hist.run.reset =>
              /\ hist.run.dispatches =
                    IF Sub32(hist.run.last, hist.run.since) >= SWITCH_DEBOUNCE_TIME_MS
                    THEN 1 ELSE 0
              /\ (last_call.op = "read_mode_switch" /\ last_call.ret) =>
                    last_call.ext = << mode_switch_changed(hist.run.pos) >>
              /\ (last_call.op = "read_mode_switch" /\ ~last_call.ret) =>
                    last_call.ext = << >>)

\* C37 witness: band 5 was latched, the switch was reset, band 5 was reported
\* again 200 ms after the reset and a later read reported nothing
C37_Witness ==
    /\ hist.run.reset
    /\ hist.run.p = 5 /\ hist.run.pos = 5
    /\ hist.run.dispatches = 1
    /\ switch_state.current_position = 5
    /\ last_call.op = "read_mode_switch" /\ ~last_call.ret

\* C38: with a non-zero override timeout, once has_override() has returned false
\* because the override timed out, it returns false at every later time until
\* the next accepted set_override, also across a wrap of the clock and for a
\* supplied timestamp ahead of the clock.
C38_ExpiredStaysExpired ==
    (hist.expired /\ last_call.op = "has_override") => ~last_call.ret

\* a step that dispatches RC_OVERRIDE_ENABLE at pos
EnableDispatched(pos) ==
    /\ last_call'.trig # << >>
    /\ last_call'.trig[1].func = "RC_OVERRIDE_ENABLE"
    /\ last_call'.trig[1].pos = pos

\* C39: the RC_OVERRIDE_ENABLE handler sets the overrides-enabled flag on HIGH,
\* clears it on LOW and leaves it on MIDDLE, and nothing else changes it; so
\* from a dispatch with LOW until one with HIGH the flag is clear, and every
\* set_override call made then is rejected, stores nothing and leaves
\* override_value and last_override_time as they were.
C39_OverrideEnable ==
    /\ [][EnableDispatched(HIGH) => gcs_overrides_enabled']_vars
    /\ [][EnableDispatched(LOW) => ~gcs_overrides_enabled']_vars
    /\ [][(EnableDispatched(MIDDLE) \/ last_call'.trig = << >>) =>
              UNCHANGED gcs_overrides_enabled]_vars
    /\ [][(~gcs_overrides_enabled /\ ovr.pc = "idle"
             /\ last_call'.op = "set_override") =>
              /\ last_call'.arg = "rejected"
              /\ ovr'.pc = "idle"
              /\ UNCHANGED << override_value, last_override_time >>]_vars
    /\ [][(ovr.pc = "idle" /\ ovr'.pc = "set") => gcs_overrides_enabled]_vars

\* C39 witness: after an accepted override and a dispatch with LOW and one with
\* MIDDLE, a set_override call was rejected and the stored override is as it was
C39_Witness ==
    /\ last_call.op = "set_override" /\ last_call.arg = "rejected"
    /\ ~gcs_overrides_enabled
    /\ override_value = 1000 /\ last_override_time = 50
    /\ ovr.calls = 2

\* C40: update() stores the override value in radio_in while an override is
\* active and leaves radio_in alone when it reports 'no update'; read_aux
\* classifies the stored radio_in: the candidate it records, the position it
\* latches and the position it dispatches are the band of radio_in, and the
\* classified position changes only in a step of update() that succeeds.
C40_ClassifiesStoredInput ==
    /\ [][(last_call'.op = "update" /\ OverrideUsable) =>
              /\ last_call'.ret
              /\ radio_in' = override_value]_vars
    /\ [][(last_call'.op = "update" /\ ~OverrideUsable /\ ~ReceiverUsable) =>
              /\ ~last_call'.ret
              /\ UNCHANGED radio_in]_vars
    /\ [][~(last_call'.op = "update" /\ last_call'.ret) =>
              /\ UNCHANGED radio_in
              /\ Sampled' = Sampled]_vars
    /\ [][ReadAuxStep =>
              /\ (switch_state.initialised /\ Sampled # -1) =>
                     switch_state'.debounce_position = Sampled
              /\ switch_state'.current_position # switch_state.current_position =>
                     switch_state'.current_position = Sampled
              /\ last_call'.trig # << >> => last_call'.trig[1].pos = Sampled]_vars

\* C40 witness: on a channel without a receiver read_aux dispatched HIGH from
\* the radio_in an override left, after that override had expired
C40_Witness ==
    /\ ~has_had_rc_receiver
    /\ last_call.op = "read_aux"
    /\ DispatchedFromSwitch(last_call, "MOTOR_ESTOP", HIGH)
    /\ radio_in = 2000
    /\ override_value = 2000
    /\ ~has_override(override_value, last_override_time, override_timeout, now)

====
